---- MODULE Spec2Model ----
(***************************************************************************)
(* Model of src/server.js (0g-bug-tracker): the report cache, the document *)
(* index, the fuzzy report matcher and the HTTP handlers that use them.    *)
(*                                                                         *)
(* A JavaScript string is a sequence of one-character strings, so that     *)
(* "ab" is <<"a", "b">>.  A JavaScript value is a record [t, s]: t is its  *)
(* type tag and s its string form (String(value)).                         *)
(***************************************************************************)
EXTENDS Integers, Sequences, FiniteSets, TLC

VARIABLES
  reportsCache,     \* server.js:29  let reportsCache = []
  reportDocsIndex,  \* server.js:30  let reportDocsIndex = null
  recordsSource,    \* data/reports.json as the next readFile finds it
  docsDir,          \* data/reports as the next readdir finds it
  listening,        \* app.listen has been called
  pc,               \* where each asynchronous activity is suspended
  local,            \* the local variables of each activity
  resp,             \* the response each request has sent
  readCount,        \* history: reads of data/reports.json issued
  scanCount,        \* history: readdir calls on data/reports issued
  cacheSource,      \* history: the parsed array reportsCache was built from
  afterFirst,       \* history: the state when a first of two calls returned
  bugsCache,        \* server.js:27  let bugsCache = []
  uploadedFileHash, \* server.js:28  let uploadedFileHash = null
  bugsFile,         \* data/bugs.json as the next readFile finds it
  remoteStore,      \* the root hashes the remote blob store holds
  blobPc,           \* where each blob-store request is suspended
  blobLocal,        \* the local variables of each blob-store request
  blobResp,         \* the response each blob-store request has sent
  call,             \* the function application under way: its name and arguments
  ret               \* the value that application returned

blobVars ==
  <<bugsCache, uploadedFileHash, bugsFile, remoteStore, blobPc, blobLocal, blobResp>>

serverVars ==
  <<recordsSource, docsDir, listening, pc, local, resp, readCount, scanCount,
    cacheSource, afterFirst, blobVars>>

vars == <<reportsCache, reportDocsIndex, serverVars, call, ret>>

----------------------------------------------------------------------------
(* Characters and strings *)

Uppers == <<"A", "B", "C", "D", "E", "F", "G", "H", "I", "J", "K", "L", "M",
            "N", "O", "P", "Q", "R", "S", "T", "U", "V", "W", "X", "Y", "Z">>

Lowers == <<"a", "b", "c", "d", "e", "f", "g", "h", "i", "j", "k", "l", "m",
            "n", "o", "p", "q", "r", "s", "t", "u", "v", "w", "x", "y", "z">>

Digits == <<"0", "1", "2", "3", "4", "5", "6", "7", "8", "9">>

Range(f) == {f[i] : i \in DOMAIN f}

\* String.prototype.toLowerCase, one character: "E_acute" stands for the
\* single code point U+00C9 and "e_acute" for U+00E9.
toLowerCaseChar(c) ==
  IF \E i \in DOMAIN Uppers : Uppers[i] = c
  THEN Lowers[CHOOSE i \in DOMAIN Uppers : Uppers[i] = c]
  ELSE IF c = "E_acute" THEN "e_acute" ELSE c

\* String.prototype.normalize('NFKD'), one character: U+00E9 decomposes into
\* "e" followed by the combining acute accent U+0301; ASCII is unchanged.
nfkdChar(c) ==
  IF c = "e_acute" THEN <<"e", "combining_acute">>
  ELSE IF c = "E_acute" THEN <<"E", "combining_acute">>
  ELSE <<c>>

\* the character class [a-z0-9]
IsAlnum(c) == c \in Range(Lowers) \cup Range(Digits)

RECURSIVE FlatMap(_, _)
FlatMap(Op(_), s) ==
  IF s = <<>> THEN <<>> ELSE Op(Head(s)) \o FlatMap(Op, Tail(s))

toLowerCase(s) == [i \in DOMAIN s |-> toLowerCaseChar(s[i])]

normalizeNFKD(s) == FlatMap(nfkdChar, s)

\* .replace(/[^a-z0-9]/g, '')
StripNonAlnum(s) == SelectSeq(s, IsAlnum)

\* .replace(/[^a-z0-9]+/g, '-'): every maximal run of other characters
\* becomes one hyphen.
RECURSIVE HyphenateRuns(_, _)
HyphenateRuns(s, inRun) ==
  IF s = <<>> THEN <<>>
  ELSE IF IsAlnum(Head(s)) THEN <<Head(s)>> \o HyphenateRuns(Tail(s), FALSE)
  ELSE IF inRun THEN HyphenateRuns(Tail(s), TRUE)
  ELSE <<"-">> \o HyphenateRuns(Tail(s), TRUE)

\* .replace(/^-+|-+$/g, '')
RECURSIVE TrimHyphens(_)
TrimHyphens(s) ==
  IF s = <<>> THEN <<>>
  ELSE IF Head(s) = "-" THEN TrimHyphens(Tail(s))
  ELSE IF s[Len(s)] = "-" THEN TrimHyphens(SubSeq(s, 1, Len(s) - 1))
  ELSE s

----------------------------------------------------------------------------
(* JavaScript values *)

Undefined == [t |-> "undefined", s |-> <<>>]
Null == [t |-> "null", s |-> <<>>]
Str(s) == [t |-> "string", s |-> s]
\* a number, given by its decimal form
Num(s) == [t |-> "number", s |-> s]
\* a thrown TypeError
TypeError == [t |-> "TypeError", s |-> <<>>]
\* the function Object, which every object literal inherits as .constructor
ObjectFunction == [t |-> "function", s |-> <<"O", "b", "j", "e", "c", "t">>]

\* ToBoolean
Truthy(v) ==
  \/ v.t = "string" /\ v.s # <<>>
  \/ v.t = "number" /\ v.s # <<"0">>
  \/ v.t = "function"

IsString(v) == v.t = "string"

Threw(v) == v.t = "TypeError"

----------------------------------------------------------------------------
(* Text normalizer *)

\* normalizeText on a string
normalizeString(s) == StripNonAlnum(normalizeNFKD(toLowerCase(s)))

\* normalizeText(value): '' for a falsy value, a TypeError for a truthy value
\* that has no toLowerCase method (a number), else the normalized string.
normalizeText(value) ==
  IF ~Truthy(value) THEN Str(<<>>)
  ELSE IF ~IsString(value) THEN TypeError
  ELSE Str(normalizeString(value.s))

\* createSlug(value), value a string
createSlug(s) == TrimHyphens(HyphenateRuns(normalizeNFKD(toLowerCase(s)), FALSE))

----------------------------------------------------------------------------
(* Edit distance *)

Min3(x, y, z) ==
  IF x <= y /\ x <= z THEN x ELSE IF y <= z THEN y ELSE z

\* the inner loop over j: currentRow grows by one cell per step
RECURSIVE FillRow(_, _, _, _, _)
FillRow(ai, b, previousRow, currentRow, j) ==
  IF j >= Len(b) THEN currentRow
  ELSE LET insertCost == currentRow[j + 1] + 1
           deleteCost == previousRow[j + 2] + 1
           replaceCost == previousRow[j + 1] + (IF ai = b[j + 1] THEN 0 ELSE 1)
       IN FillRow(ai, b, previousRow,
                  Append(currentRow, Min3(insertCost, deleteCost, replaceCost)),
                  j + 1)

\* the outer loop over i: previousRow is overwritten with currentRow, cell
\* by cell (j = 0 .. b.length), before the next iteration starts.  The test
\* on the cells, which are counts, makes the row a computed value at that
\* point, as it is in the code.
RECURSIVE LevRows(_, _, _, _)
LevRows(a, b, previousRow, i) ==
  IF i >= Len(a) THEN previousRow[Len(b) + 1]
  ELSE LET currentRow == FillRow(a[i + 1], b, previousRow, <<i + 1>>, 0)
       IN IF \A j \in 0..Len(b) : currentRow[j + 1] >= 0
          THEN LevRows(a, b, [j \in 1..(Len(b) + 1) |-> currentRow[j]], i + 1)
          ELSE -1

\* a plausible slip: the early return for an empty first argument gives 0
levenshteinDistanceEmptyIsZero(a, b) ==
  IF a = b THEN 0
  ELSE IF Len(a) = 0 THEN 0
  ELSE IF Len(b) = 0 THEN Len(a)
  ELSE LevRows(a, b, [k \in 1..(Len(b) + 1) |-> k - 1], 0)

levenshteinDistance(a, b) ==
  IF a = b THEN 0
  ELSE IF Len(a) = 0 THEN Len(b)
  ELSE IF Len(b) = 0 THEN Len(a)
  ELSE LevRows(a, b, [k \in 1..(Len(b) + 1) |-> k - 1], 0)

----------------------------------------------------------------------------
(* Sequence helpers that stand for the JavaScript built-ins the code calls *)

\* the index of the first element of s at or after position i that
\* satisfies Test, or 0
RECURSIVE IndexFrom(_, _, _)
IndexFrom(Test(_), s, i) ==
  IF i > Len(s) THEN 0 ELSE IF Test(s[i]) THEN i ELSE IndexFrom(Test, s, i + 1)

\* the index of the last element of s at or before position i that
\* satisfies Test, or 0
RECURSIVE LastIndexFrom(_, _, _)
LastIndexFrom(Test(_), s, i) ==
  IF i < 1 THEN 0 ELSE IF Test(s[i]) THEN i ELSE LastIndexFrom(Test, s, i - 1)

Contains(s, x) == \E i \in DOMAIN s : s[i] = x

\* String.prototype.split(sep), sep one character
RECURSIVE Split(_, _)
Split(s, sep) ==
  LET IsSep(c) == c = sep
      k == IndexFrom(IsSep, s, 1)
  IN IF k = 0 THEN <<s>>
     ELSE <<SubSeq(s, 1, k - 1)>> \o Split(SubSeq(s, k + 1, Len(s)), sep)

\* Array.prototype.join(sep)
RECURSIVE Join(_, _)
Join(parts, sep) ==
  IF parts = <<>> THEN <<>>
  ELSE IF Len(parts) = 1 THEN parts[1]
  ELSE parts[1] \o <<sep>> \o Join(Tail(parts), sep)

NonEmpty(s) == s # <<>>

\* String.prototype.endsWith
EndsWith(s, suffix) ==
  Len(s) >= Len(suffix) /\ SubSeq(s, Len(s) - Len(suffix) + 1, Len(s)) = suffix

\* String.prototype.includes: needle occurs in hay as a contiguous run
Includes(hay, needle) ==
  \E i \in 0..(Len(hay) - Len(needle)) : SubSeq(hay, i + 1, i + Len(needle)) = needle

----------------------------------------------------------------------------
(* new URL(input).pathname and path.basename                               *)
(*                                                                         *)
(* The WHATWG parser without a base URL, for inputs over letters, digits,  *)
(* space and the punctuation : / . - _ ? # whose host, if any, is made of  *)
(* letters, hyphens and dots (no port, no credentials): the scheme, the    *)
(* authority, the hierarchical path with its dot segments removed, or the  *)
(* opaque path.                                                            *)

IsAsciiAlpha(c) == c \in Range(Uppers) \cup Range(Lowers)

IsSchemeChar(c) == IsAsciiAlpha(c) \/ c \in Range(Digits) \/ c \in {"+", "-", "."}

IsSpace(c) == c = " "

\* leading and trailing C0 control or space are stripped
RECURSIVE TrimSpaces(_)
TrimSpaces(s) ==
  IF s = <<>> THEN <<>>
  ELSE IF IsSpace(Head(s)) THEN TrimSpaces(Tail(s))
  ELSE IF IsSpace(s[Len(s)]) THEN TrimSpaces(SubSeq(s, 1, Len(s) - 1))
  ELSE s

SpecialSchemes ==
  { <<"h", "t", "t", "p">>, <<"h", "t", "t", "p", "s">>, <<"f", "t", "p">>,
    <<"w", "s">>, <<"w", "s", "s">> }

\* the input up to its query or fragment
BeforeQuery(s) ==
  LET IsQ(c) == c \in {"?", "#"}
      k == IndexFrom(IsQ, s, 1)
  IN IF k = 0 THEN s ELSE SubSeq(s, 1, k - 1)

RECURSIVE DropLeadingSlashes(_)
DropLeadingSlashes(s) ==
  IF s # <<>> /\ Head(s) = "/" THEN DropLeadingSlashes(Tail(s)) ELSE s

\* the path state: "." is skipped, ".." removes the segment before it, and
\* either of them in last place leaves an empty last segment
RECURSIVE RemoveDotSegments(_, _)
RemoveDotSegments(segments, out) ==
  IF segments = <<>> THEN out
  ELSE LET seg == Head(segments)
           last == Len(segments) = 1
       IN IF seg = <<".", ".">>
          THEN RemoveDotSegments(Tail(segments),
                 (IF out = <<>> THEN out ELSE SubSeq(out, 1, Len(out) - 1))
                   \o (IF last THEN << <<>> >> ELSE <<>>))
          ELSE IF seg = <<".">>
          THEN RemoveDotSegments(Tail(segments),
                 out \o (IF last THEN << <<>> >> ELSE <<>>))
          ELSE RemoveDotSegments(Tail(segments), Append(out, seg))

\* the path percent-encode set, as far as the modelled characters go
percentEncodePathChar(c) ==
  IF c = " " THEN <<"%", "2", "0">>
  ELSE IF c = "e_acute" THEN <<"%", "C", "3", "%", "A", "9">>
  ELSE IF c = "E_acute" THEN <<"%", "C", "3", "%", "8", "9">>
  ELSE <<c>>

\* the C0 control percent-encode set, which an opaque path is encoded with
percentEncodeOpaqueChar(c) ==
  IF c = "e_acute" THEN <<"%", "C", "3", "%", "A", "9">>
  ELSE IF c = "E_acute" THEN <<"%", "C", "3", "%", "8", "9">>
  ELSE <<c>>

\* the pathname of a hierarchical path that starts with "/"
HierarchicalPath(p) ==
  <<"/">> \o Join(RemoveDotSegments(Split(FlatMap(percentEncodePathChar, Tail(p)), "/"), <<>>), "/")

IsHostChar(c) == IsAsciiAlpha(c) \/ c \in {"-", "."}

IsColon(c) == c = ":"

IsSlash(c) == c = "/"

\* new URL throws
URLFailure == [ok |-> FALSE, pathname |-> <<>>]

\* the authority ends at position e - 1 of afterSlashes (at its end when
\* e = 0) and the path starts there; a special scheme needs a host and has
\* the path "/" when none is given
ParseHost(afterSlashes, e, special) ==
  LET authority == IF e = 0 THEN afterSlashes ELSE SubSeq(afterSlashes, 1, e - 1)
      path == IF e = 0 THEN <<>> ELSE SubSeq(afterSlashes, e, Len(afterSlashes))
  IN IF \/ special /\ authority = <<>>
        \/ \E i \in DOMAIN authority : ~IsHostChar(authority[i])
     THEN URLFailure
     ELSE [ok |-> TRUE,
           pathname |-> IF path # <<>> THEN HierarchicalPath(path)
                        ELSE IF special THEN <<"/">> ELSE <<>>]

ParseAuthority(afterSlashes, special) ==
  ParseHost(afterSlashes, IndexFrom(IsSlash, afterSlashes, 1), special)

\* what follows "scheme:", its query and fragment removed
ParseAfterScheme(scheme, rest) ==
  IF scheme \in SpecialSchemes
  THEN ParseAuthority(DropLeadingSlashes(rest), TRUE)
  ELSE IF Len(rest) >= 2 /\ rest[1] = "/" /\ rest[2] = "/"
  THEN ParseAuthority(SubSeq(rest, 3, Len(rest)), FALSE)
  ELSE IF rest # <<>> /\ rest[1] = "/"
  THEN [ok |-> TRUE, pathname |-> HierarchicalPath(rest)]
  ELSE [ok |-> TRUE, pathname |-> FlatMap(percentEncodeOpaqueChar, rest)]

\* the scheme is s up to position k - 1, where its first colon is
ParseScheme(s, k) ==
  IF \/ k < 2
     \/ ~IsAsciiAlpha(s[1])
     \/ \E i \in 1..(k - 1) : ~IsSchemeChar(s[i])
  THEN URLFailure
  ELSE ParseAfterScheme(toLowerCase(SubSeq(s, 1, k - 1)),
                        BeforeQuery(SubSeq(s, k + 1, Len(s))))

ParseTrimmed(s) == ParseScheme(s, IndexFrom(IsColon, s, 1))

\* [ok |-> parsed, pathname |-> the URL's pathname]
URLParse(input) == ParseTrimmed(TrimSpaces(input))

\* path.basename (POSIX): trailing slashes are ignored, then the part after
\* the last slash
basename(p) ==
  LET NotSlash(c) == c # "/"
      end == LastIndexFrom(NotSlash, p, Len(p))
      start == LastIndexFrom(IsSlash, p, end)
  IN IF end = 0 THEN <<>> ELSE SubSeq(p, start + 1, end)

\* fileName.replace(/\.[^.]+$/, ''): the last dot and what follows it go,
\* unless the last dot is the last character
removeExtension(fileName) ==
  LET IsDot(c) == c = "."
      k == LastIndexFrom(IsDot, fileName, Len(fileName))
  IN IF k = 0 \/ k = Len(fileName) THEN fileName ELSE SubSeq(fileName, 1, k - 1)

----------------------------------------------------------------------------
(* Candidate generator *)

\* Set.prototype.add on the insertion-ordered set
SetAdd(set, v) == IF Contains(set, v) THEN set ELSE Append(set, v)

\* the candidates added for report.github_repo, a string
AddRepoCandidates(set, repo) ==
  LET segments == SelectSeq(Split(repo, "/"), NonEmpty)
      withRepo == SetAdd(set, Str(repo))
  IN IF Len(segments) > 0
     THEN SetAdd(withRepo, Str(segments[Len(segments)]))
     ELSE withRepo

\* if (fileName) { candidates.add(fileName); candidates.add(fileName.replace(...)) }
AddFileName(set, fileName) ==
  IF fileName # <<>>
  THEN SetAdd(SetAdd(set, Str(fileName)), Str(removeExtension(fileName)))
  ELSE set

\* the try block, urlObj being what new URL(report.url) gave: new URL(5)
\* throws like a malformed URL does
AddParsedUrl(set, url, urlObj) ==
  IF IsString(url) /\ urlObj.ok /\ urlObj.pathname # <<>>
  THEN AddFileName(set, basename(urlObj.pathname))
  ELSE set

\* the candidates added for report.url
AddUrlCandidates(set, url) == AddParsedUrl(SetAdd(set, url), url, URLParse(url.s))

\* if (slug) candidates.add(slug)
SlugCandidate(slug) == IF slug # <<>> THEN <<Str(slug)>> ELSE <<>>

\* if (report.title) candidates.add(report.title)
WithTitle(set, report) ==
  IF Truthy(report.title) THEN SetAdd(set, report.title) ELSE set

\* if (report.github_repo) { ... }
WithRepo(set, report) ==
  IF Truthy(report.github_repo) THEN AddRepoCandidates(set, report.github_repo.s)
  ELSE set

\* if (report.url) { ... }
WithUrl(set, report) ==
  IF Truthy(report.url) THEN AddUrlCandidates(set, report.url) ELSE set

\* buildReportDocCandidates(report, slug), slug a string: the array of
\* candidates, or the TypeError of report.github_repo.split on a number
buildReportDocCandidates(report, slug) ==
  IF Truthy(report.github_repo) /\ ~IsString(report.github_repo)
  THEN TypeError
  ELSE [t |-> "array",
        s |-> SelectSeq(WithUrl(WithRepo(WithTitle(SlugCandidate(slug), report),
                                         report), report),
                        Truthy)]

----------------------------------------------------------------------------
(* Document index: a JavaScript object, kept as the sequence of its own    *)
(* [key, path] properties in Object.entries order                          *)

NullIndex == [isNull |-> TRUE, entries |-> <<>>]

EmptyIndex == [isNull |-> FALSE, entries |-> <<>>]

\* path.join(reportsDir, entry); "reportsDir/" stands for the directory
\* prefix __dirname/data/reports/
DocPath(entry) == Str(<<"reportsDir/">> \o entry)

\* an array-index key ("0", "7", "12"): such keys are enumerated first, in
\* ascending numeric order, whatever the order they were assigned in
IsArrayIndexKey(key) ==
  /\ key # <<>>
  /\ Len(key) <= 9
  /\ \A i \in DOMAIN key : key[i] \in Range(Digits)
  /\ (Len(key) = 1 \/ key[1] # "0")

RECURSIVE KeyNumber(_)
KeyNumber(key) ==
  IF key = <<>> THEN 0
  ELSE 10 * KeyNumber(SubSeq(key, 1, Len(key) - 1))
         + (CHOOSE d \in DOMAIN Digits : Digits[d] = key[Len(key)]) - 1

\* IndexPut leaving an existing key with the path it already has
IndexPutKeepsFirst(entries, key, path) ==
  IF \E i \in DOMAIN entries : entries[i].key = key
  THEN entries
  ELSE Append(entries, [key |-> key, path |-> path])

\* reportDocsIndex[key] = path
IndexPut(entries, key, path) ==
  IF \E i \in DOMAIN entries : entries[i].key = key
  THEN [i \in DOMAIN entries |->
          IF entries[i].key = key THEN [key |-> key, path |-> path] ELSE entries[i]]
  ELSE IF IsArrayIndexKey(key)
  THEN LET before == Cardinality({i \in DOMAIN entries :
                        /\ IsArrayIndexKey(entries[i].key)
                        /\ KeyNumber(entries[i].key) < KeyNumber(key)})
       IN SubSeq(entries, 1, before) \o <<[key |-> key, path |-> path]>>
            \o SubSeq(entries, before + 1, Len(entries))
  ELSE Append(entries, [key |-> key, path |-> path])

\* reportDocsIndex[key], read: an own property, else what the object
\* inherits from Object.prototype.  Of the inherited names only
\* "constructor" is made of the characters a normalized key can hold.
IndexGet(index, key) ==
  IF \E i \in DOMAIN index.entries : index.entries[i].key = key
  THEN index.entries[CHOOSE i \in DOMAIN index.entries : index.entries[i].key = key].path
  ELSE IF key = <<"c", "o", "n", "s", "t", "r", "u", "c", "t", "o", "r">>
  THEN ObjectFunction
  ELSE Undefined

\* if (normalized) reportDocsIndex[normalized] = path
PutNormalized(entries, normalized, path) ==
  IF Truthy(normalized) THEN IndexPut(entries, normalized.s, path) ELSE entries

\* the body of entries.forEach in ensureReportDocsIndex, for one entry
IndexEntry(entries, entry) ==
  IF EndsWith(toLowerCase(entry), <<".", "m", "d">>)
  THEN PutNormalized(entries, normalizeText(Str(SubSeq(entry, 1, Len(entry) - 3))),
                     DocPath(entry))
  ELSE entries

\* the index built from a directory listing
RECURSIVE IndexEntries(_, _)
IndexEntries(entries, listing) ==
  IF listing = <<>> THEN entries
  ELSE IndexEntries(IndexEntry(entries, Head(listing)), Tail(listing))

BuildIndex(listing) == [isNull |-> FALSE, entries |-> IndexEntries(<<>>, listing)]

----------------------------------------------------------------------------
(* Scores: JavaScript numbers.  A score is the double that the code's      *)
(* expression evaluates to, kept as the exact fraction num/den together    *)
(* with the expression that was rounded: 1 - distance / maxLength (sim) or *)
(* normalizedQuery.length / candidate.length.                              *)

MinusInfinity == [inf |-> TRUE, num |-> 0, den |-> 1, sim |-> FALSE]

Similarity(distance, maxLength) ==
  [inf |-> FALSE, num |-> maxLength - distance, den |-> maxLength, sim |-> TRUE]

Ratio(n, d) == [inf |-> FALSE, num |-> n, den |-> d, sim |-> FALSE]

Zero == Ratio(0, 1)

SameFraction(x, n, d) == x.num * d = n * x.den

\* fractions v = n/d in lowest terms, d up to 24, at which the double of
\* 1 - (d - n)/d lies above the double of n/d
SimRoundsAbove ==
  { <<1, 21>>, <<1, 20>>, <<1, 19>>, <<1, 18>>, <<1, 17>>, <<1, 12>>,
    <<2, 23>>, <<1, 11>>, <<1, 9>>, <<2, 17>>, <<3, 23>>, <<1, 7>>,
    <<3, 20>>, <<3, 19>>, <<3, 17>>, <<5, 24>>, <<3, 14>>, <<5, 22>>,
    <<4, 17>>, <<5, 21>>, <<6, 23>>, <<5, 19>>, <<4, 15>>, <<3, 10>>,
    <<7, 22>>, <<1, 3>>, <<7, 19>>, <<3, 7>>, <<10, 23>>, <<5, 11>>,
    <<11, 24>>, <<9, 19>>, <<10, 19>>, <<13, 24>>, <<13, 23>>, <<2, 3>>,
    <<15, 22>>, <<11, 15>>, <<14, 19>>, <<6, 7>>, <<21, 23>>, <<18, 19>> }

\* fractions at which it lies below
SimRoundsBelow ==
  { <<1, 24>>, <<1, 23>>, <<1, 22>>, <<1, 15>>, <<1, 14>>, <<1, 13>>,
    <<1, 10>>, <<2, 15>>, <<1, 6>>, <<2, 11>>, <<1, 5>>, <<5, 23>>,
    <<3, 13>>, <<7, 24>>, <<5, 17>>, <<6, 17>>, <<5, 14>>, <<5, 13>>,
    <<7, 18>>, <<9, 23>>, <<9, 22>>, <<5, 12>>, <<9, 20>>, <<7, 12>>,
    <<13, 22>>, <<9, 14>>, <<11, 17>>, <<12, 17>>, <<17, 24>>, <<10, 13>>,
    <<9, 11>> }

\* x > y on doubles
ScoreGreater(x, y) ==
  IF x.inf THEN FALSE
  ELSE IF y.inf THEN TRUE
  ELSE \/ x.num * y.den > y.num * x.den
       \/ /\ x.num * y.den = y.num * x.den
          /\ \/ x.sim /\ ~y.sim /\ \E v \in SimRoundsAbove : SameFraction(x, v[1], v[2])
             \/ y.sim /\ ~x.sim /\ \E v \in SimRoundsBelow : SameFraction(x, v[1], v[2])

\* x >= 0.6, x a similarity: 1 - 0.4 is the double 0.6
AtLeastPointSix(x) == 5 * x.num >= 3 * x.den

\* x < 0.45: 9/20 is the double 0.45, and 1 - 11/20 is the double below it
BelowPointFourFive(x) ==
  \/ x.inf
  \/ 20 * x.num < 9 * x.den
  \/ x.sim /\ 20 * x.num = 9 * x.den

----------------------------------------------------------------------------
(* Report resolver: explanation path *)

Max2(x, y) == IF x >= y THEN x ELSE y

\* if (similarity > bestSimilarity) { bestSimilarity = similarity; bestPath = value }
KeepBetter(best, path, similarity) ==
  IF ScoreGreater(similarity, best.similarity)
  THEN [path |-> path, similarity |-> similarity]
  ELSE best

\* entries.forEach of findDocPathForCandidates: best is [path, similarity]
RECURSIVE ScanEntries(_, _, _)
ScanEntries(entries, normalized, best) ==
  IF entries = <<>> THEN best
  ELSE ScanEntries(Tail(entries), normalized,
         KeepBetter(best, Head(entries).path,
           Similarity(levenshteinDistance(Head(entries).key, normalized),
                      Max2(Max2(Len(Head(entries).key), Len(normalized)), 1))))

\* if (bestPath && bestSimilarity >= 0.6) return bestPath; return null
AcceptBest(best) ==
  IF Truthy(best.path) /\ AtLeastPointSix(best.similarity) THEN best.path ELSE Null

\* the loop over the candidates, from the i-th on, and its body for the
\* i-th, normalized being normalizeText(candidate)
RECURSIVE ScanCandidates(_, _, _, _)
RECURSIVE ScanCandidate(_, _, _, _, _)
ScanCandidate(candidates, i, index, best, normalized) ==
  IF Threw(normalized) THEN TypeError
  ELSE IF Truthy(normalized) /\ Truthy(IndexGet(index, normalized.s))
  THEN IndexGet(index, normalized.s)
  ELSE IF ~Truthy(normalized)
  THEN ScanCandidates(candidates, i + 1, index, best)
  ELSE ScanCandidates(candidates, i + 1, index,
         ScanEntries(index.entries, normalized.s, best))

ScanCandidates(candidates, i, index, best) ==
  IF i > Len(candidates) THEN AcceptBest(best)
  ELSE ScanCandidate(candidates, i, index, best, normalizeText(candidates[i]))

\* findDocPathForCandidates(candidates), reading reportDocsIndex = index
findDocPathForCandidates(candidates, index) ==
  IF index.isNull THEN Null
  ELSE ScanCandidates(candidates, 1, index, [path |-> Null, similarity |-> Zero])

\* a || b || c || d
FirstTruthy(values) ==
  LET k == IndexFrom(Truthy, values, 1)
  IN IF k = 0 THEN values[Len(values)] ELSE values[k]

\* slugSource ? createSlug(String(slugSource)) : ''
SlugOrEmpty(slugSource) ==
  IF Truthy(slugSource) THEN createSlug(slugSource.s) ELSE <<>>

\* return findDocPathForCandidates(candidates), unless building the
\* candidates threw
FindForCandidates(candidates, index) ==
  IF Threw(candidates) THEN TypeError
  ELSE findDocPathForCandidates(candidates.s, index)

\* resolveExplanationPath(report) once ensureReportDocsIndex has returned
resolveExplanationPath(report, index) ==
  FindForCandidates(
    buildReportDocCandidates(report,
      SlugOrEmpty(FirstTruthy(<<report.slug, report.title, report.github_repo,
                                report.url>>))),
    index)

----------------------------------------------------------------------------
(* Report records *)

\* an element of the parsed reports.json array: an object with the four
\* fields the code reads (Undefined when absent), or a value that is not an
\* object
Obj(slug, title, github_repo, url) ==
  [isObject |-> TRUE, slug |-> slug, title |-> title,
   github_repo |-> github_repo, url |-> url]

NotAnObject ==
  [isObject |-> FALSE, slug |-> Undefined, title |-> Undefined,
   github_repo |-> Undefined, url |-> Undefined]

\* String(n) for n >= 0
RECURSIVE IntToString(_)
IntToString(n) ==
  IF n < 10 THEN <<Digits[n + 1]>>
  ELSE IntToString(n \div 10) \o <<Digits[(n % 10) + 1]>>

\* `report-${index + 1}`
Placeholder(index) == <<"r", "e", "p", "o", "r", "t", "-">> \o IntToString(index + 1)

\* slugCandidate || `report-${index + 1}`
SlugOrPlaceholder(slugCandidate, index) ==
  IF slugCandidate # <<>> THEN slugCandidate ELSE Placeholder(index)

\* the slug that the map callback of ensureReportsLoaded gives item
SlugFor(item, index) ==
  SlugOrPlaceholder(
    createSlug(FirstTruthy(<<item.slug, item.title, item.github_repo, item.url,
                             Str(Placeholder(index))>>).s),
    index)

\* const base = (item && typeof item === 'object') ? item : {}
Base(item) == IF item.isObject THEN item ELSE NotAnObject

\* { ...base, slug }
ReportWithSlug(item, index) ==
  LET base == Base(item)
  IN [slug |-> Str(SlugFor(base, index)), title |-> base.title,
      github_repo |-> base.github_repo, url |-> base.url]

\* what resolveExplanationPath returns in each map callback of
\* ensureReportsLoaded: a path, none, or a TypeError
ResolveAll(reportsArray, docsIndex) ==
  [i \in DOMAIN reportsArray |->
     resolveExplanationPath(ReportWithSlug(reportsArray[i], i - 1), docsIndex)]

\* the record that the map callback of ensureReportsLoaded returns
EnrichItem(reportWithSlug, explanationPath) ==
  [slug |-> reportWithSlug.slug, title |-> reportWithSlug.title,
   github_repo |-> reportWithSlug.github_repo, url |-> reportWithSlug.url,
   explanationPath |-> IF Truthy(explanationPath) THEN explanationPath ELSE Null,
   hasExplanation |-> Truthy(explanationPath)]

\* Promise.all over the callbacks: the array of enriched records, or a
\* rejection when one callback throws
CollectEnriched(reportsArray, paths) ==
  IF \E i \in DOMAIN reportsArray : Threw(paths[i])
  THEN [rejected |-> TRUE, records |-> <<>>]
  ELSE [rejected |-> FALSE,
        records |-> [i \in DOMAIN reportsArray |->
                       EnrichItem(ReportWithSlug(reportsArray[i], i - 1), paths[i])]]

\* Promise.all(reportsArray.map(...))
EnrichAll(reportsArray, docsIndex) ==
  CollectEnriched(reportsArray, ResolveAll(reportsArray, docsIndex))

----------------------------------------------------------------------------
(* Report resolver: best report for a query *)

\* let bestMatch = null
NoReport ==
  [slug |-> Undefined, title |-> Undefined, github_repo |-> Undefined,
   url |-> Undefined, explanationPath |-> Null, hasExplanation |-> FALSE]

\* the score of one comparison string against the normalized query
CandidateScore(candidate, normalizedQuery) ==
  IF Includes(candidate, normalizedQuery) \/ Includes(normalizedQuery, candidate)
  THEN Ratio(Len(normalizedQuery), Max2(Len(candidate), 1))
  ELSE Similarity(levenshteinDistance(candidate, normalizedQuery),
                  Max2(Max2(Len(candidate), Len(normalizedQuery)), 1))

\* [report.title, report.github_repo, report.url].filter(Boolean)
ComparisonFields(report) ==
  SelectSeq(<<report.title, report.github_repo, report.url>>, Truthy)

\* if (score > bestScore) { bestScore = score; bestMatch = report }
KeepHigher(best, report, score) ==
  IF ScoreGreater(score, best.score)
  THEN [match |-> report, score |-> score, threw |-> FALSE]
  ELSE best

\* the body of candidates.forEach, for one normalized candidate
ScoreCandidate(candidate, report, normalizedQuery, best) ==
  IF candidate = <<>> THEN best
  ELSE KeepHigher(best, report, CandidateScore(candidate, normalizedQuery))

\* candidates.forEach: best is [match, score, threw]
RECURSIVE ScoreCandidates(_, _, _, _)
ScoreCandidates(fields, report, normalizedQuery, best) ==
  IF fields = <<>> THEN best
  ELSE ScoreCandidates(Tail(fields), report, normalizedQuery,
         ScoreCandidate(normalizeText(Head(fields)).s, report, normalizedQuery, best))

\* reportsCache.forEach: a TypeError leaves the loop when .map(normalizeText)
\* meets a truthy field that is not a string
RECURSIVE ScoreReports(_, _, _)
ScoreReports(reports, normalizedQuery, best) ==
  IF reports = <<>> THEN best
  ELSE LET fields == ComparisonFields(Head(reports))
       IN IF \E i \in DOMAIN fields : Threw(normalizeText(fields[i]))
          THEN [match |-> NoReport, score |-> MinusInfinity, threw |-> TRUE]
          ELSE ScoreReports(Tail(reports), normalizedQuery,
                 ScoreCandidates(fields, Head(reports), normalizedQuery, best))

\* what a call returns: null, { report, score }, or a thrown TypeError
ReturnNull == [t |-> "null", report |-> NoReport, score |-> MinusInfinity]
ReturnMatch(report, score) == [t |-> "match", report |-> report, score |-> score]
ReturnThrow == [t |-> "TypeError", report |-> NoReport, score |-> MinusInfinity]

\* if (bestScore < 0.45) return null; return { report, score }
ReturnBest(best) ==
  IF best.threw THEN ReturnThrow
  ELSE IF BelowPointFourFive(best.score) THEN ReturnNull
  ELSE ReturnMatch(best.match, best.score)

\* findBestReportMatch once the query is normalized
MatchNormalized(normalizedQuery, cache) ==
  IF normalizedQuery = <<>> THEN ReturnNull
  ELSE ReturnBest(ScoreReports(cache, normalizedQuery,
                    [match |-> NoReport, score |-> MinusInfinity, threw |-> FALSE]))

\* findBestReportMatch(query), query a string, reading reportsCache = cache
findBestReportMatch(query, cache) ==
  MatchNormalized(normalizeText(Str(query)).s, cache)

----------------------------------------------------------------------------
(* The server: startup, the report routes, and the files they read *)

\* a report that has a title only
Titled(title) == Obj(Undefined, Str(title), Undefined, Undefined)

\* no function is being applied on its own
NoCall == [fn |-> "none"]
NoRet == [t |-> "pending", s |-> <<>>]

\* the activities: initDataDir(), two requests, and a caller that calls
\* ensureReportsLoaded() twice in succession
Requests == {"r1", "r2"}
Activities == {"initDataDir", "twice"} \cup Requests

\* data/reports.json: absent (ENOENT), unreadable, not JSON, JSON that is
\* not an array, or a JSON array
Source(kind, items) == [kind |-> kind, items |-> items]

\* a record whose slug is blank
BlankSlugReports == << Obj(Str(<<" ">>), Str(<<"a", "b">>), Undefined, Undefined) >>

\* an element that is not an object, and a record whose title is a number
MixedReports == << NotAnObject, Obj(Str(<<"f", "o", "o">>), Num(<<"5">>), Undefined, Undefined) >>

\* a record whose title is the name of a property every object inherits
InheritedNameReports == << Titled(<<"C", "o", "n", "s", "t", "r", "u", "c", "t", "o", "r">>), Titled(<<"a", "b">>) >>

\* data/reports: absent (ENOENT), failing with another I/O error, or listed
Dir(kind, entries) == [kind |-> kind, entries |-> entries]

\* the files the running server is given
ServedSources ==
  { Source("missing", <<>>), Source("unparsable", <<>>), Source("notarray", <<>>),
    Source("array", BlankSlugReports), Source("array", MixedReports) }

ServedDirs == { Dir("missing", <<>>), Dir("ok", << <<"f", "o", "o", ".", "m", "d">>, <<"a", "b", ".", "m", "d">> >>) }

RecordsSources ==
  ServedSources \cup
    { Source("unreadable", <<>>), Source("array", <<>>),
      Source("array", InheritedNameReports) }

DocsDirs == ServedDirs \cup { Dir("ioerror", <<>>), Dir("ok", << <<"n", "o", "t", "e", "s", ".", "t", "x", "t">> >>) }

\* req.query.q of a search and req.params.slug of an explain request
SearchQueries == { <<"a", "b">>, <<" ">> }
ExplainSlugs == { <<"a", "b">>, <<"f", "o", "o">> }

\* sanitizeReport returning the record as it is cached
sanitizeReportKeepsPath(report) == report

\* sanitizeReport(report), report not null
sanitizeReport(report) ==
  [slug |-> report.slug, title |-> report.title, github_repo |-> report.github_repo,
   url |-> report.url, hasExplanation |-> report.hasExplanation]

NoLocal ==
  [handler |-> "none", arg |-> <<>>, reportsArray |-> <<>>, report |-> NoReport,
   explanationPath |-> Null, callNo |-> 0]

NoResponse ==
  [status |-> 0, body |-> "none", report |-> sanitizeReport(NoReport),
   score |-> MinusInfinity]

\* res.status(status).json(...)
Response(status, body) == [NoResponse EXCEPT !.status = status, !.body = body]

NotTaken == [taken |-> FALSE, cache |-> <<>>, index |-> NullIndex, reads |-> 0]

\* the blob-store requests: uploads, downloads, and reads of the bugs and
\* of the last-uploaded hash
BlobRequests == {"b1", "b2"}

\* a JSON text and the value JSON.parse gives for it: an array of bug
\* records, a value that is not an array, or no JSON at all
Json(kind, items) == [kind |-> kind, items |-> items]

EmptyArray == Json("array", <<>>)
BugsA == Json("array", <<"bugA">>)
BugsB == Json("array", <<"bugB1", "bugB2">>)
NoFile == Json("none", <<>>)

\* req.file of POST /api/upload: absent, or the file multer stored
UploadFiles ==
  { NoFile, Json("unparsable", <<>>), Json("notarray", <<>>), BugsA, BugsB }

\* tree.rootHash(): the Merkle root of a file, a function of its content
NoHash == [isNull |-> TRUE, of |-> NoFile]
RootHash(content) == [isNull |-> FALSE, of |-> content]

\* req.params.rootHash of GET /api/download/:rootHash
DownloadHashes == { RootHash(BugsA), RootHash(BugsB) }

NoBlobLocal == [handler |-> "none", file |-> NoFile, rootHash |-> NoHash]

NoBlobResponse ==
  [status |-> 0, body |-> "none", data |-> NoFile, count |-> 0, rootHash |-> NoHash]

\* res.status(status).json(...) of a blob-store route
BlobResponse(status, body) == [NoBlobResponse EXCEPT !.status = status, !.body = body]

\* the blob-store state after the module has been evaluated
InitBlobIdle ==
  /\ bugsCache = EmptyArray
  /\ uploadedFileHash = NoHash
  /\ bugsFile = NoFile
  /\ remoteStore = {}
  /\ blobPc = [b \in BlobRequests |-> "idle"]
  /\ blobLocal = [b \in BlobRequests |-> NoBlobLocal]
  /\ blobResp = [b \in BlobRequests |-> NoBlobResponse]

InitActivitiesIdle ==
  /\ recordsSource = Source("missing", <<>>)
  /\ docsDir = Dir("missing", <<>>)
  /\ listening = FALSE
  /\ pc = [p \in Activities |-> "idle"]
  /\ local = [p \in Activities |-> NoLocal]
  /\ resp = [p \in Activities |-> NoResponse]
  /\ readCount = 0
  /\ scanCount = 0
  /\ cacheSource = <<>>
  /\ afterFirst = NotTaken
  /\ InitBlobIdle

\* const data = await fs.readFile(...); JSON.parse(data); reportsArray
ReadRecords(source) ==
  [threw |-> source.kind \in {"missing", "unreadable", "unparsable"},
   reportsArray |-> IF source.kind = "array" THEN source.items ELSE <<>>]

\* what ensureReportDocsIndex assigns when its readdir completes
ScanDocs(dir) == IF dir.kind = "ok" THEN BuildIndex(dir.entries) ELSE EmptyIndex

\* what ensureReportsLoaded assigns to reportsCache once the index is
\* built: the enriched records, or [] in the catch block
LoadedCache(reportsArray, index) ==
  LET all == EnrichAll(reportsArray, index)
  IN IF all.rejected THEN <<>> ELSE all.records

\* fs.readFile(explanationPath) finds the file
MarkdownReadable(explanationPath, dir) ==
  /\ dir.kind = "ok"
  /\ \E i \in DOMAIN dir.entries : DocPath(dir.entries[i]) = explanationPath

\* GET /api/reports/search: the response for what findBestReportMatch
\* returned
SearchResponse(result) ==
  IF result.t = "TypeError" THEN Response(500, "Failed to search reports")
  ELSE IF result.t = "null" THEN Response(200, "No matching report found")
  ELSE [status |-> 200, body |-> "match",
        report |-> sanitizeReport(result.report), score |-> result.score]

\* reportsCache.find((item) => normalizeText(item.slug) === normalizedSlug):
\* its position, or 0
FindBySlug(normalizedSlug, cache) ==
  CHOOSE k \in 0..Len(cache) :
    /\ k # 0 => normalizeText(cache[k].slug).s = normalizedSlug
    /\ \A j \in 1..Len(cache) :
         (k = 0 \/ j < k) => normalizeText(cache[j].slug).s # normalizedSlug

\* report.explanationPath || await resolveExplanationPath(report)
ExplanationPathOf(report, index) ==
  IF Truthy(report.explanationPath) THEN report.explanationPath
  ELSE resolveExplanationPath(report, index)

\* a promise continuation is queued: it runs before any I/O completes and
\* before any request arrives
MicrotaskPending == \E p \in Activities : pc[p] \in {"enrich", "loaded"}

\* ensureReportsLoaded() up to its first await: it returns when the cache
\* holds a report, and otherwise issues the read of data/reports.json
CallEnsureReportsLoaded(p, loc) ==
  /\ local' = [local EXCEPT ![p] = loc]
  /\ IF Len(reportsCache) > 0
     THEN /\ pc' = [pc EXCEPT ![p] = "loaded"]
          /\ UNCHANGED readCount
     ELSE /\ pc' = [pc EXCEPT ![p] = "readFile"]
          /\ readCount' = readCount + 1
  /\ UNCHANGED <<reportsCache, reportDocsIndex, recordsSource, docsDir, listening,
                 resp, scanCount, cacheSource, afterFirst, call, ret,
                 blobVars>>

\* initDataDir(): the three mkdir calls complete; when one fails the catch
\* block skips ensureReportsLoaded(), and the server listens either way
MkdirDone ==
  /\ ~MicrotaskPending
  /\ pc["initDataDir"] = "mkdir"
  /\ \E ok \in BOOLEAN :
       IF ok
       THEN CallEnsureReportsLoaded("initDataDir", local["initDataDir"])
       ELSE /\ listening' = TRUE
            /\ pc' = [pc EXCEPT !["initDataDir"] = "done"]
            /\ UNCHANGED <<reportsCache, reportDocsIndex, recordsSource, docsDir,
                           local, resp, readCount, scanCount, cacheSource,
                           afterFirst, call, ret,
                 blobVars>>

\* initDataDir().then(...): app.listen
Listen ==
  /\ pc["initDataDir"] = "loaded"
  /\ listening' = TRUE
  /\ pc' = [pc EXCEPT !["initDataDir"] = "done"]
  /\ UNCHANGED <<reportsCache, reportDocsIndex, recordsSource, docsDir, local, resp,
                 readCount, scanCount, cacheSource, afterFirst, call, ret,
                 blobVars>>

\* GET /api/reports/search?q=q arrives
StartSearch(p, q) ==
  /\ listening
  /\ ~MicrotaskPending
  /\ pc[p] = "idle"
  /\ IF TrimSpaces(q) = <<>>
     THEN /\ resp' = [resp EXCEPT ![p] =
                        Response(400, "Query parameter \"q\" is required")]
          /\ pc' = [pc EXCEPT ![p] = "done"]
          /\ local' = [local EXCEPT ![p] = [NoLocal EXCEPT !.handler = "search"]]
          /\ UNCHANGED <<reportsCache, reportDocsIndex, recordsSource, docsDir,
                         listening, readCount, scanCount, cacheSource, afterFirst,
                         call, ret,
                 blobVars>>
     ELSE CallEnsureReportsLoaded(p, [NoLocal EXCEPT !.handler = "search",
                                                      !.arg = TrimSpaces(q)])

\* GET /api/reports/slug/explain arrives
StartExplain(p, slug) ==
  /\ listening
  /\ ~MicrotaskPending
  /\ pc[p] = "idle"
  /\ CallEnsureReportsLoaded(p, [NoLocal EXCEPT !.handler = "explain", !.arg = slug])

\* the read of data/reports.json completes: the catch block empties the
\* cache when it or JSON.parse fails; otherwise ensureReportDocsIndex()
\* returns at once when the index is built, and else issues the readdir
ReadFileDone(p) ==
  /\ ~MicrotaskPending
  /\ pc[p] = "readFile"
  /\ IF ReadRecords(recordsSource).threw
     THEN /\ reportsCache' = <<>>
          /\ cacheSource' = <<>>
          /\ pc' = [pc EXCEPT ![p] = "loaded"]
          /\ UNCHANGED <<local, scanCount>>
     ELSE /\ local' = [local EXCEPT ![p].reportsArray =
                         ReadRecords(recordsSource).reportsArray]
          /\ IF reportDocsIndex.isNull
             THEN /\ pc' = [pc EXCEPT ![p] = "readdir"]
                  /\ scanCount' = scanCount + 1
             ELSE /\ pc' = [pc EXCEPT ![p] = "enrich"]
                  /\ UNCHANGED scanCount
          /\ UNCHANGED <<reportsCache, cacheSource>>
  /\ UNCHANGED <<reportDocsIndex, recordsSource, docsDir, listening, resp, readCount,
                 afterFirst, call, ret,
                 blobVars>>

\* the readdir of data/reports completes: the index is assigned, from the
\* listing or, in the catch block, as {}
ReaddirDone(p) ==
  /\ ~MicrotaskPending
  /\ pc[p] = "readdir"
  /\ reportDocsIndex' = ScanDocs(docsDir)
  /\ pc' = [pc EXCEPT ![p] = "enrich"]
  /\ UNCHANGED <<reportsCache, recordsSource, docsDir, listening, local, resp,
                 readCount, scanCount, cacheSource, afterFirst, call, ret,
                 blobVars>>

\* ensureReportsLoaded() after await ensureReportDocsIndex(): the records
\* are enriched and stored, or the catch block empties the cache
Enrich(p) ==
  /\ pc[p] = "enrich"
  /\ reportsCache' = LoadedCache(local[p].reportsArray, reportDocsIndex)
  /\ cacheSource' = IF reportsCache' = <<>> THEN <<>> ELSE local[p].reportsArray
  /\ pc' = [pc EXCEPT ![p] = "loaded"]
  /\ UNCHANGED <<reportDocsIndex, recordsSource, docsDir, listening, local, resp,
                 readCount, scanCount, afterFirst, call, ret,
                 blobVars>>

\* GET /api/reports/search after await ensureReportsLoaded()
SearchRespond(p) ==
  /\ pc[p] = "loaded"
  /\ local[p].handler = "search"
  /\ resp' = [resp EXCEPT ![p] =
                SearchResponse(findBestReportMatch(local[p].arg, reportsCache))]
  /\ pc' = [pc EXCEPT ![p] = "done"]
  /\ UNCHANGED <<reportsCache, reportDocsIndex, recordsSource, docsDir, listening,
                 local, readCount, scanCount, cacheSource, afterFirst, call, ret,
                 blobVars>>

\* the explain route once the report is found, explanationPath being
\* report.explanationPath || await resolveExplanationPath(report): a fault
\* or a path that is not a string answers 500, no path answers that there
\* is no explanation, and else the markdown file is read
ExplainReport(p, report, explanationPath) ==
  /\ local' = [local EXCEPT ![p].report = report,
                            ![p].explanationPath =
                               IF IsString(explanationPath) THEN explanationPath
                               ELSE Null]
  /\ IF Threw(explanationPath) \/ (Truthy(explanationPath) /\ ~IsString(explanationPath))
     THEN /\ resp' = [resp EXCEPT ![p] =
                        Response(500, "Failed to load report explanation")]
          /\ pc' = [pc EXCEPT ![p] = "done"]
     ELSE IF ~Truthy(explanationPath)
     THEN /\ resp' = [resp EXCEPT ![p] =
                        Response(200, "Explanation not available for this report.")]
          /\ pc' = [pc EXCEPT ![p] = "done"]
     ELSE /\ pc' = [pc EXCEPT ![p] = "readMarkdown"]
          /\ UNCHANGED resp

\* the explain route after reportsCache.find, k being the position found
ExplainFound(p, k) ==
  IF k = 0
  THEN /\ resp' = [resp EXCEPT ![p] = Response(404, "Report not found")]
       /\ pc' = [pc EXCEPT ![p] = "done"]
       /\ UNCHANGED local
  ELSE ExplainReport(p, reportsCache[k],
                     ExplanationPathOf(reportsCache[k], reportDocsIndex))

\* GET /api/reports/:slug/explain after await ensureReportsLoaded()
ExplainRespond(p) ==
  /\ pc[p] = "loaded"
  /\ local[p].handler = "explain"
  /\ ExplainFound(p, FindBySlug(normalizeString(local[p].arg), reportsCache))
  /\ UNCHANGED <<reportsCache, reportDocsIndex, recordsSource, docsDir, listening,
                 readCount, scanCount, cacheSource, afterFirst, call, ret,
                 blobVars>>

\* the read of the markdown file of an explain request completes
MarkdownDone(p) ==
  /\ ~MicrotaskPending
  /\ pc[p] = "readMarkdown"
  /\ resp' = [resp EXCEPT ![p] =
       IF MarkdownReadable(local[p].explanationPath, docsDir)
       THEN [status |-> 200, body |-> "markdown",
             report |-> sanitizeReport(local[p].report), score |-> MinusInfinity]
       ELSE Response(500, "Failed to load report explanation")]
  /\ pc' = [pc EXCEPT ![p] = "done"]
  /\ UNCHANGED <<reportsCache, reportDocsIndex, recordsSource, docsDir, listening,
                 local, readCount, scanCount, cacheSource, afterFirst, call, ret,
                 blobVars>>

\* somebody replaces data/reports.json or changes data/reports
RecordsSourceChanges ==
  /\ ~MicrotaskPending
  /\ recordsSource' \in ServedSources \ {recordsSource}
  /\ UNCHANGED <<reportsCache, reportDocsIndex, docsDir, listening, pc, local, resp,
                 readCount, scanCount, cacheSource, afterFirst, call, ret,
                 blobVars>>

DocsDirChanges ==
  /\ ~MicrotaskPending
  /\ docsDir' \in ServedDirs \ {docsDir}
  /\ UNCHANGED <<reportsCache, reportDocsIndex, recordsSource, listening, pc, local,
                 resp, readCount, scanCount, cacheSource, afterFirst, call, ret,
                 blobVars>>

\* the module has been evaluated: initDataDir() is awaiting its first mkdir
Init ==
  /\ reportsCache = <<>>
  /\ reportDocsIndex = NullIndex
  /\ recordsSource \in ServedSources
  /\ docsDir \in ServedDirs
  /\ listening = FALSE
  /\ pc = [p \in Activities |-> IF p = "initDataDir" THEN "mkdir" ELSE "idle"]
  /\ local = [p \in Activities |->
                IF p = "initDataDir" THEN [NoLocal EXCEPT !.handler = "initDataDir"]
                ELSE NoLocal]
  /\ resp = [p \in Activities |-> NoResponse]
  /\ readCount = 0
  /\ scanCount = 0
  /\ cacheSource = <<>>
  /\ afterFirst = NotTaken
  /\ InitBlobIdle
  /\ call = NoCall
  /\ ret = NoRet

Next ==
  \/ MkdirDone
  \/ Listen
  \/ \E p \in Requests, q \in SearchQueries : StartSearch(p, q)
  \/ \E p \in Requests, slug \in ExplainSlugs : StartExplain(p, slug)
  \/ \E p \in Activities : ReadFileDone(p)
  \/ \E p \in Activities : ReaddirDone(p)
  \/ \E p \in Activities : Enrich(p)
  \/ \E p \in Requests : SearchRespond(p)
  \/ \E p \in Requests : ExplainRespond(p)
  \/ \E p \in Requests : MarkdownDone(p)
  \/ RecordsSourceChanges
  \/ DocsDirChanges

Spec == Init /\ [][Next]_vars

----------------------------------------------------------------------------
(* The blob-store routes: POST /api/upload, GET /api/download/:rootHash,   *)
(* GET /api/bugs and GET /api/file-hash                                    *)

\* the state of the report routes, which no blob-store route assigns
reportVars ==
  <<reportsCache, reportDocsIndex, recordsSource, docsDir, listening, pc, local,
    resp, readCount, scanCount, cacheSource, afterFirst, call, ret>>

\* a blob-store request answers and ends
BlobRespond(b, response) ==
  /\ blobResp' = [blobResp EXCEPT ![b] = response]
  /\ blobPc' = [blobPc EXCEPT ![b] = "done"]

\* POST /api/upload arrives: 400 without a file, else the file is read
StartUpload(b, file) ==
  /\ listening
  /\ ~MicrotaskPending
  /\ blobPc[b] = "idle"
  /\ blobLocal' = [blobLocal EXCEPT ![b] = [NoBlobLocal EXCEPT !.handler = "upload",
                                                               !.file = file]]
  /\ IF file = NoFile
     THEN BlobRespond(b, BlobResponse(400, "No file uploaded"))
     ELSE /\ blobPc' = [blobPc EXCEPT ![b] = "readFile"]
          /\ UNCHANGED blobResp
  /\ UNCHANGED <<bugsCache, uploadedFileHash, bugsFile, remoteStore, reportVars>>

\* the read of the uploaded file completes: JSON.parse throws into the
\* outer catch, a value that is not an array answers 400, and an array is
\* handed to the remote store
UploadReadDone(b) ==
  /\ ~MicrotaskPending
  /\ blobPc[b] = "readFile"
  /\ blobLocal[b].handler = "upload"
  /\ IF blobLocal[b].file.kind = "unparsable"
     THEN BlobRespond(b, BlobResponse(500, "error.message"))
     ELSE IF blobLocal[b].file.kind # "array"
     THEN BlobRespond(b, BlobResponse(400, "JSON must be an array"))
     ELSE /\ blobPc' = [blobPc EXCEPT ![b] = "remote"]
          /\ UNCHANGED blobResp
  /\ UNCHANGED <<bugsCache, uploadedFileHash, bugsFile, remoteStore, blobLocal,
                 reportVars>>

\* bugsCache = jsonData, and the write of data/bugs.json is issued
StoreLocally(b) ==
  /\ bugsCache' = blobLocal[b].file
  /\ blobPc' = [blobPc EXCEPT ![b] = "writeFile"]

\* ZgFile.fromFilePath, file.merkleTree and indexer.upload complete: on
\* success the root hash is stored and file.close awaited; a failure is
\* caught and the handler continues with the local storage
UploadRemoteDone(b) ==
  /\ ~MicrotaskPending
  /\ blobPc[b] = "remote"
  /\ \E ok \in BOOLEAN :
       IF ok
       THEN /\ uploadedFileHash' = RootHash(blobLocal[b].file)
            /\ remoteStore' = remoteStore \cup {blobLocal[b].file}
            /\ blobPc' = [blobPc EXCEPT ![b] = "close"]
            /\ UNCHANGED bugsCache
       ELSE /\ StoreLocally(b)
            /\ UNCHANGED <<uploadedFileHash, remoteStore>>
  /\ UNCHANGED <<bugsFile, blobLocal, blobResp, reportVars>>

\* file.close() completes, or fails into the inner catch
UploadCloseDone(b) ==
  /\ ~MicrotaskPending
  /\ blobPc[b] = "close"
  /\ StoreLocally(b)
  /\ UNCHANGED <<uploadedFileHash, bugsFile, remoteStore, blobLocal, blobResp,
                 reportVars>>

\* the write of data/bugs.json completes, or fails into the outer catch
UploadWriteDone(b) ==
  /\ ~MicrotaskPending
  /\ blobPc[b] = "writeFile"
  /\ \E ok \in BOOLEAN :
       IF ok
       THEN /\ bugsFile' = blobLocal[b].file
            /\ blobPc' = [blobPc EXCEPT ![b] = "unlink"]
            /\ UNCHANGED blobResp
       ELSE /\ BlobRespond(b, BlobResponse(500, "error.message"))
            /\ UNCHANGED bugsFile
  /\ UNCHANGED <<bugsCache, uploadedFileHash, remoteStore, blobLocal, reportVars>>

\* the unlink of the uploaded file completes: the success response carries
\* jsonData.length and uploadedFileHash as it is now
UploadUnlinkDone(b) ==
  /\ ~MicrotaskPending
  /\ blobPc[b] = "unlink"
  /\ blobLocal[b].handler = "upload"
  /\ \E ok \in BOOLEAN :
       IF ok
       THEN BlobRespond(b, [BlobResponse(200, "File uploaded successfully")
                              EXCEPT !.count = Len(blobLocal[b].file.items),
                                     !.rootHash = uploadedFileHash])
       ELSE BlobRespond(b, BlobResponse(500, "error.message"))
  /\ UNCHANGED <<bugsCache, uploadedFileHash, bugsFile, remoteStore, blobLocal,
                 reportVars>>

\* GET /api/download/:rootHash arrives (a route parameter is never empty):
\* the downloads directory is made, its failure ignored, and the download
\* from the remote store is issued
StartDownload(b, rootHash) ==
  /\ listening
  /\ ~MicrotaskPending
  /\ blobPc[b] = "idle"
  /\ blobLocal' = [blobLocal EXCEPT ![b] = [NoBlobLocal EXCEPT !.handler = "download",
                                                               !.rootHash = rootHash]]
  /\ blobPc' = [blobPc EXCEPT ![b] = "download"]
  /\ UNCHANGED <<bugsCache, uploadedFileHash, bugsFile, remoteStore, blobResp,
                 reportVars>>

\* indexer.download completes: with an error, thrown into the catch block,
\* or with the file of that root hash in the temporary file
DownloadDone(b) ==
  /\ ~MicrotaskPending
  /\ blobPc[b] = "download"
  /\ \E ok \in BOOLEAN :
       IF ok /\ blobLocal[b].rootHash.of \in remoteStore
       THEN /\ blobLocal' = [blobLocal EXCEPT ![b].file = blobLocal[b].rootHash.of]
            /\ blobPc' = [blobPc EXCEPT ![b] = "readFile"]
            /\ UNCHANGED blobResp
       ELSE /\ BlobRespond(b, BlobResponse(500, "error.message"))
            /\ UNCHANGED blobLocal
  /\ UNCHANGED <<bugsCache, uploadedFileHash, bugsFile, remoteStore, reportVars>>

\* the read of the temporary file completes and is parsed; its unlink is
\* issued
DownloadReadDone(b) ==
  /\ ~MicrotaskPending
  /\ blobPc[b] = "readFile"
  /\ blobLocal[b].handler = "download"
  /\ IF blobLocal[b].file.kind = "unparsable"
     THEN BlobRespond(b, BlobResponse(500, "error.message"))
     ELSE /\ blobPc' = [blobPc EXCEPT ![b] = "unlink"]
          /\ UNCHANGED blobResp
  /\ UNCHANGED <<bugsCache, uploadedFileHash, bugsFile, remoteStore, blobLocal,
                 reportVars>>

\* DownloadUnlinkDone also emptying the report cache
DownloadUnlinkDoneStoresInReportsCache(b) ==
  /\ ~MicrotaskPending
  /\ blobPc[b] = "unlink"
  /\ blobLocal[b].handler = "download"
  /\ bugsCache' = blobLocal[b].file
  /\ reportsCache' = <<>>
  /\ BlobRespond(b, [BlobResponse(200, "File downloaded successfully from 0G storage")
                       EXCEPT !.data = blobLocal[b].file])
  /\ UNCHANGED <<uploadedFileHash, bugsFile, remoteStore, blobLocal, reportDocsIndex,
                 recordsSource, docsDir, listening, pc, local, resp, readCount,
                 scanCount, cacheSource, afterFirst, call, ret>>

\* the unlink of the temporary file completes, its failure ignored:
\* bugsCache = jsonData, and the data is sent
DownloadUnlinkDone(b) ==
  /\ ~MicrotaskPending
  /\ blobPc[b] = "unlink"
  /\ blobLocal[b].handler = "download"
  /\ bugsCache' = blobLocal[b].file
  /\ BlobRespond(b, [BlobResponse(200, "File downloaded successfully from 0G storage")
                       EXCEPT !.data = blobLocal[b].file])
  /\ UNCHANGED <<uploadedFileHash, bugsFile, remoteStore, blobLocal, reportVars>>

\* GET /api/bugs arrives: the cache is sent, or data/bugs.json read when
\* the cache is the empty array
StartBugs(b) ==
  /\ listening
  /\ ~MicrotaskPending
  /\ blobPc[b] = "idle"
  /\ blobLocal' = [blobLocal EXCEPT ![b] = [NoBlobLocal EXCEPT !.handler = "bugs"]]
  /\ IF bugsCache = EmptyArray
     THEN /\ blobPc' = [blobPc EXCEPT ![b] = "readBugs"]
          /\ UNCHANGED blobResp
     ELSE BlobRespond(b, [BlobResponse(200, "bugs") EXCEPT !.data = bugsCache])
  /\ UNCHANGED <<bugsCache, uploadedFileHash, bugsFile, remoteStore, reportVars>>

\* the read of data/bugs.json completes: the cache is what it parses to,
\* or [] when the file is absent or does not parse
BugsReadDone(b) ==
  /\ ~MicrotaskPending
  /\ blobPc[b] = "readBugs"
  /\ bugsCache' = IF bugsFile.kind \in {"none", "unparsable"} THEN EmptyArray
                  ELSE bugsFile
  /\ BlobRespond(b, [BlobResponse(200, "bugs") EXCEPT !.data = bugsCache'])
  /\ UNCHANGED <<uploadedFileHash, bugsFile, remoteStore, blobLocal, reportVars>>

\* GET /api/file-hash
GetFileHash(b) ==
  /\ listening
  /\ ~MicrotaskPending
  /\ blobPc[b] = "idle"
  /\ blobLocal' = [blobLocal EXCEPT ![b] = [NoBlobLocal EXCEPT !.handler = "file-hash"]]
  /\ BlobRespond(b, [BlobResponse(200, "file-hash") EXCEPT !.rootHash = uploadedFileHash])
  /\ UNCHANGED <<bugsCache, uploadedFileHash, bugsFile, remoteStore, reportVars>>

\* the blob-store routes beside the startup load and one search request
NextBlob ==
  \/ MkdirDone
  \/ Listen
  \/ \E q \in SearchQueries : StartSearch("r1", q)
  \/ \E p \in {"initDataDir", "r1"} : ReadFileDone(p)
  \/ \E p \in {"initDataDir", "r1"} : ReaddirDone(p)
  \/ \E p \in {"initDataDir", "r1"} : Enrich(p)
  \/ SearchRespond("r1")
  \/ \E b \in BlobRequests, file \in UploadFiles : StartUpload(b, file)
  \/ \E b \in BlobRequests : UploadReadDone(b)
  \/ \E b \in BlobRequests : UploadRemoteDone(b)
  \/ \E b \in BlobRequests : UploadCloseDone(b)
  \/ \E b \in BlobRequests : UploadWriteDone(b)
  \/ \E b \in BlobRequests : UploadUnlinkDone(b)
  \/ \E b \in BlobRequests, rootHash \in DownloadHashes : StartDownload(b, rootHash)
  \/ \E b \in BlobRequests : DownloadDone(b)
  \/ \E b \in BlobRequests : DownloadReadDone(b)
  \/ \E b \in BlobRequests : DownloadUnlinkDone(b)
  \/ \E b \in BlobRequests : StartBugs(b)
  \/ \E b \in BlobRequests : BugsReadDone(b)
  \/ \E b \in BlobRequests : GetFileHash(b)

SpecBlob == Init /\ [][NextBlob]_vars

----------------------------------------------------------------------------
(* ensureReportsLoaded() called twice in succession, the files unchanged *)

InitTwice ==
  /\ reportsCache = <<>>
  /\ reportDocsIndex = NullIndex
  /\ recordsSource \in RecordsSources
  /\ docsDir \in DocsDirs
  /\ listening = FALSE
  /\ pc = [p \in Activities |-> "idle"]
  /\ local = [p \in Activities |-> NoLocal]
  /\ resp = [p \in Activities |-> NoResponse]
  /\ readCount = 0
  /\ scanCount = 0
  /\ cacheSource = <<>>
  /\ afterFirst = NotTaken
  /\ InitBlobIdle
  /\ call = NoCall
  /\ ret = NoRet

CallFirst ==
  /\ pc["twice"] = "idle"
  /\ CallEnsureReportsLoaded("twice", [NoLocal EXCEPT !.handler = "twice", !.callNo = 1])

\* the first call returns: the state it leaves is recorded
ReturnFirst ==
  /\ pc["twice"] = "loaded"
  /\ local["twice"].callNo = 1
  /\ afterFirst' = [taken |-> TRUE, cache |-> reportsCache, index |-> reportDocsIndex,
                    reads |-> readCount]
  /\ pc' = [pc EXCEPT !["twice"] = "between"]
  /\ UNCHANGED <<reportsCache, reportDocsIndex, recordsSource, docsDir, listening,
                 local, resp, readCount, scanCount, cacheSource, call, ret,
                 blobVars>>

CallSecond ==
  /\ pc["twice"] = "between"
  /\ CallEnsureReportsLoaded("twice", [NoLocal EXCEPT !.handler = "twice", !.callNo = 2])

ReturnSecond ==
  /\ pc["twice"] = "loaded"
  /\ local["twice"].callNo = 2
  /\ pc' = [pc EXCEPT !["twice"] = "done"]
  /\ UNCHANGED <<reportsCache, reportDocsIndex, recordsSource, docsDir, listening,
                 local, resp, readCount, scanCount, cacheSource, afterFirst, call, ret,
                 blobVars>>

NextTwice ==
  \/ CallFirst
  \/ ReadFileDone("twice")
  \/ ReaddirDone("twice")
  \/ Enrich("twice")
  \/ ReturnFirst
  \/ CallSecond
  \/ ReturnSecond

SpecTwice == InitTwice /\ [][NextTwice]_vars

----------------------------------------------------------------------------
(* Function applications: the argument sets *)

MaxLevLen == 3

LevAlphabet == {"a", "b"}

StringsUpTo(alphabet, n) == UNION {[1..k -> alphabet] : k \in 0..n}


\* the server's variables while a function is applied on its own
InitServerIdle ==
  /\ reportsCache = <<>>
  /\ reportDocsIndex = NullIndex
  /\ InitActivitiesIdle

\* levenshteinDistance applied to every pair of bounded strings
InitLev ==
  /\ InitServerIdle
  /\ call \in {[fn |-> "levenshteinDistance", a |-> a, b |-> b] :
                 a \in StringsUpTo(LevAlphabet, MaxLevLen),
                 b \in StringsUpTo(LevAlphabet, MaxLevLen)}
  /\ ret = NoRet

ApplyLevenshtein ==
  /\ call.fn = "levenshteinDistance"
  /\ ret = NoRet
  /\ ret' = [t |-> "number", n |-> levenshteinDistance(call.a, call.b)]
  /\ UNCHANGED <<reportsCache, reportDocsIndex, serverVars, call>>

NextLev == ApplyLevenshtein

SpecLev == InitLev /\ [][NextLev]_vars

----------------------------------------------------------------------------
(* C8 *)

\* the classic definition of the edit distance, by the last edit operation
RECURSIVE EditDistance(_, _)
EditDistance(a, b) ==
  IF a = <<>> THEN Len(b)
  ELSE IF b = <<>> THEN Len(a)
  ELSE Min3(EditDistance(Tail(a), b) + 1,
            EditDistance(a, Tail(b)) + 1,
            EditDistance(Tail(a), Tail(b)) + (IF Head(a) = Head(b) THEN 0 ELSE 1))

LevReturned == call.fn = "levenshteinDistance" /\ ret # NoRet

\* C8: levenshteinDistance(a, b) is the classic Levenshtein edit distance
\* (insertion, deletion, substitution cost 1 each) of a and b: 0 when a = b,
\* the other string's length when one is empty, and the same as
\* levenshteinDistance(b, a).
C8_LevenshteinIsEditDistance ==
  LevReturned =>
    /\ ret.n = EditDistance(call.a, call.b)
    /\ (call.a = call.b => ret.n = 0)
    /\ (call.a = <<>> => ret.n = Len(call.b))
    /\ (call.b = <<>> => ret.n = Len(call.a))
    /\ ret.n = levenshteinDistance(call.b, call.a)

\* a distance was returned for two different non-empty strings of full length
C8_Witness ==
  /\ LevReturned
  /\ call.a # call.b
  /\ Len(call.a) = MaxLevLen
  /\ Len(call.b) = MaxLevLen - 1
  /\ ret.n = 2

----------------------------------------------------------------------------
(* buildReportDocCandidates applied to reports and slugs *)

CandSlugs == { <<>>, <<"f", "o", "o", "-", "b", "a", "r">>, <<"p", "r", "o", "j">> }

CandTitles == { Undefined, Str(<<>>), Str(<<"F", "o", "o", " ", "B", "a", "r">>), Str(<<"p", "r", "o", "j">>), Num(<<"5">>) }

CandRepos ==
  { Undefined, Str(<<"o", "r", "g", "/", "p", "r", "o", "j">>), Str(<<"p", "r", "o", "j">>), Str(<<"o", "r", "g", "/", "p", "r", "o", "j", "/">>), Str(<<"/", "/", "/">>),
    Num(<<"5">>) }

CandUrls ==
  { Undefined,
    Str(<<"h", "t", "t", "p", "s", ":", "/", "/", "h", "o", "s", "t", "/", "p", "a", "t", "h", "/", "R", "e", "p", "o", "r", "t", "-", "N", "a", "m", "e", ".", "p", "d", "f">>),
    Str(<<"n", "o", "t", " ", "a", " ", "u", "r", "l">>),
    Str(<<"h", "t", "t", "p", "s", ":", "/", "/", "h", "o", "s", "t">>),
    Str(<<"h", "t", "t", "p", "s", ":", "/", "/", "h", "o", "s", "t", "/", "a", "/", "p", "r", "o", "j", "/">>),
    Str(<<"h", "t", "t", "p", "s", ":", "/", "/", "h", "o", "s", "t", "/", ".", "p", "d", "f">>),
    Str(<<"h", "t", "t", "p", "s", ":", "/", "/", "h", "o", "s", "t", "/", "a", "/", "n", "a", "m", "e", ".">>),
    Str(<<"H", "T", "T", "P", "S", ":", "/", "/", "h", "o", "s", "t", "/", "a", "/", ".", ".", "/", "b", "/", "v", "1", ".", "t", "a", "r", ".", "g", "z", "?", "x", "=", "1">>),
    Str(<<"x", ":", "o", "r", "g", "/", "p", "r", "o", "j">>),
    Str(<<"p", "r", "o", "j">>),
    Num(<<"5">>) }

InitCandidates ==
  /\ InitServerIdle
  /\ call \in {[fn |-> "buildReportDocCandidates",
                report |-> [slug |-> Str(slug), title |-> title,
                            github_repo |-> repo, url |-> url],
                slug |-> slug] :
                 slug \in CandSlugs, title \in CandTitles,
                 repo \in CandRepos, url \in CandUrls}
  /\ ret = NoRet

ApplyBuildCandidates ==
  /\ call.fn = "buildReportDocCandidates"
  /\ ret = NoRet
  /\ ret' = buildReportDocCandidates(call.report, call.slug)
  /\ UNCHANGED <<reportsCache, reportDocsIndex, serverVars, call>>

NextCandidates == ApplyBuildCandidates

SpecCandidates == InitCandidates /\ [][NextCandidates]_vars

----------------------------------------------------------------------------
(* C9 *)

\* the last non-empty '/'-separated segment of s, or the empty string
FinalSegment(s) ==
  LET segs == {SubSeq(s, i, j) : i \in 1..Len(s), j \in 1..Len(s)}
      IsFinal(i, j) ==
        /\ i <= j
        /\ \A k \in i..j : s[k] # "/"
        /\ \A k \in (j + 1)..Len(s) : s[k] = "/"
        /\ (i = 1 \/ s[i - 1] = "/")
  IN IF \E i, j \in 1..Len(s) : IsFinal(i, j)
     THEN LET ij == CHOOSE ij \in (1..Len(s)) \X (1..Len(s)) : IsFinal(ij[1], ij[2])
          IN SubSeq(s, ij[1], ij[2])
     ELSE <<>>

\* seg without its trailing extension: the last dot and the characters after
\* it, when there are any
WithoutExtension(seg) ==
  IF \E k \in 1..(Len(seg) - 1) : seg[k] = "." /\ \A m \in (k + 1)..Len(seg) : seg[m] # "."
  THEN SubSeq(seg, 1,
         (CHOOSE k \in 1..(Len(seg) - 1) :
            seg[k] = "." /\ \A m \in (k + 1)..Len(seg) : seg[m] # ".") - 1)
  ELSE seg

Present(v) == v # Undefined

\* the candidates the claim lists for a report and a slug
DocumentedCandidates(report, slug) ==
  LET fromSlug == IF slug # <<>> THEN {Str(slug)} ELSE {}
      fromTitle == IF Present(report.title) THEN {report.title} ELSE {}
      fromRepo == IF Present(report.github_repo)
                  THEN {report.github_repo, Str(FinalSegment(report.github_repo.s))}
                  ELSE {}
      segment == FinalSegment(URLParse(report.url.s).pathname)
      fromUrl == IF ~Present(report.url) THEN {}
                 ELSE IF IsString(report.url) /\ URLParse(report.url.s).ok /\ segment # <<>>
                 THEN {report.url, Str(segment), Str(WithoutExtension(segment))}
                 ELSE {report.url}
  IN (fromSlug \cup fromTitle \cup fromRepo \cup fromUrl) \ {Str(<<>>)}

CandidatesReturned == call.fn = "buildReportDocCandidates" /\ ret # NoRet

CandidatesAsDocumented ==
  /\ ret.t = "array"
  /\ \A i, j \in DOMAIN ret.s : i # j => ret.s[i] # ret.s[j]
  /\ \A i \in DOMAIN ret.s : ret.s[i] # Str(<<>>)
  /\ Range(ret.s) = DocumentedCandidates(call.report, call.slug)

\* C9: buildReportDocCandidates(report, slug) returns, without duplicates
\* and without empty strings, exactly the slug if non-empty, the title if
\* present, github_repo and its final '/'-separated segment, url and, when
\* url is a well-formed URL with a non-empty final path segment, that
\* segment and that segment without its trailing extension; a malformed url
\* contributes only itself and no error is raised.
C9_CandidatesExactlyAsListed == CandidatesReturned => CandidatesAsDocumented

\* the same, for the reports whose github_repo is absent or a string
C9_HoldsForStringRepo ==
  (CandidatesReturned /\ ~(call.report.github_repo.t = "number"))
    => CandidatesAsDocumented

----------------------------------------------------------------------------
(* resolveExplanationPath applied to reports, over built document indexes *)


ResolveListings ==
  { <<>>,
    << <<"f", "o", "o", "-", "b", "a", "r", ".", "m", "d">>, <<"P", "r", "o", "j", ".", "M", "D">>, <<"n", "o", "t", "e", "s", ".", "t", "x", "t">>, <<".", "m", "d">> >>,
    << <<"a", "b", "c", "d", "e", ".", "m", "d">> >>,
    << <<"a", "b", "c", "d", ".", "m", "d">>, <<"a", "b", "c", "f", ".", "m", "d">> >>,
    << <<"c", "o", "n", "s", "t", "r", "u", "c", "t", "o", "r", ".", "m", "d">> >>,
    << <<"a", "2", "3", ".", "m", "d">>, <<"1", "2", "3", ".", "m", "d">> >>,
    << <<"R", "e_acute", "s", "u", "m", "e_acute", ".", "m", "d">>, <<"r", "e", "s", "u", "m", "e", ".", "M", "D">> >> }

ResolveItems ==
  { Titled(<<"F", "o", "o", " ", "B", "a", "r">>),
    Titled(<<"a", "b", "c", "x", "y">>),
    Titled(<<"a", "b", "x", "y", "z">>),
    Titled(<<"a", "b", "c", "e">>),
    Titled(<<"x", "2", "3">>),
    Titled(<<"C", "o", "n", "s", "t", "r", "u", "c", "t", "o", "r">>),
    Titled(<<"R", "E_acute", "S", "U", "M", "E_acute">>),
    Obj(Str(<<"f", "o", "o", "-", "b", "a", "r">>), Num(<<"5">>), Undefined, Undefined),
    Obj(Undefined, Str(<<"F", "o", "b", " ", "B", "a", "r">>), Str(<<"o", "r", "g", "/", "p", "r", "o", "j">>), Undefined),
    Obj(Undefined, Undefined, Undefined, Str(<<"h", "t", "t", "p", "s", ":", "/", "/", "h", "o", "s", "t", "/", "d", "o", "c", "s", "/", "a", "b", "c", "d", "e", ".", "p", "d", "f">>)),
    Obj(Str(<<"-">>), Undefined, Undefined, Undefined),
    NotAnObject }

InitResolve ==
  /\ reportsCache = <<>>
  /\ InitActivitiesIdle
  /\ reportDocsIndex \in {BuildIndex(listing) : listing \in ResolveListings}
  /\ call \in {[fn |-> "resolveExplanationPath", report |-> ReportWithSlug(item, 0)] :
                 item \in ResolveItems}
  /\ ret = NoRet

\* ensureReportDocsIndex returns at once: the index is built
ApplyResolve ==
  /\ call.fn = "resolveExplanationPath"
  /\ ret = NoRet
  /\ ~reportDocsIndex.isNull
  /\ ret' = resolveExplanationPath(call.report, reportDocsIndex)
  /\ UNCHANGED <<reportsCache, reportDocsIndex, serverVars, call>>

NextResolve == ApplyResolve

SpecResolve == InitResolve /\ [][NextResolve]_vars

----------------------------------------------------------------------------
(* C5 *)

ResolveReturned == call.fn = "resolveExplanationPath" /\ ret # NoRet

\* the candidates of the report under resolution that are strings
StringCandidates(report) ==
  LET candidates == buildReportDocCandidates(report, createSlug(report.slug.s))
  IN IF Threw(candidates) THEN <<>> ELSE SelectSeq(candidates.s, IsString)

IndexKeys(index) == {index.entries[e].key : e \in DOMAIN index.entries}

\* the similarity of candidate i and index entry e
PairSimilarity(candidates, index, i, e) ==
  LET normalized == normalizeString(candidates[i].s)
      key == index.entries[e].key
  IN Similarity(levenshteinDistance(key, normalized),
                Max2(Max2(Len(key), Len(normalized)), 1))

ResolvedAsDocumented(report, index, result) ==
  LET candidates == StringCandidates(report)
      exact == {i \in DOMAIN candidates : normalizeString(candidates[i].s) \in IndexKeys(index)}
      pairs == {p \in (DOMAIN candidates) \X (DOMAIN index.entries) :
                  normalizeString(candidates[p[1]].s) # <<>>}
      best == {p \in pairs : \A o \in pairs :
                 ~ScoreGreater(PairSimilarity(candidates, index, o[1], o[2]),
                               PairSimilarity(candidates, index, p[1], p[2]))}
  IN IF exact # {}
     THEN LET first == CHOOSE i \in exact : \A j \in exact : i <= j
          IN \E e \in DOMAIN index.entries :
               /\ index.entries[e].key = normalizeString(candidates[first].s)
               /\ result = index.entries[e].path
     ELSE IF \E p \in best : AtLeastPointSix(PairSimilarity(candidates, index, p[1], p[2]))
     THEN \E p \in best : result = index.entries[p[2]].path
     ELSE result = Null

\* C5: resolveExplanationPath returns the path of the first candidate, in
\* candidate order, whose normalized form is a key of the document index,
\* if there is one; otherwise the path of a highest-similarity pair of a
\* normalized candidate and an index key if that similarity is at least 0.6
\* (0.6 itself included); otherwise none.
C5_ExactThenBestAboveThreshold ==
  ResolveReturned => ResolvedAsDocumented(call.report, reportDocsIndex, ret)

\* the candidate strings that make the code leave the documented behaviour:
\* a truthy field that is not a string, and a candidate that normalizes to
\* the inherited property name "constructor" when no document has that key
ReachesInheritedOrNonString(report, index) ==
  \/ \E v \in {report.title, report.github_repo, report.url} : Truthy(v) /\ ~IsString(v)
  \/ /\ <<"c", "o", "n", "s", "t", "r", "u", "c", "t", "o", "r">> \notin IndexKeys(index)
     /\ \E i \in DOMAIN StringCandidates(report) :
          normalizeString(StringCandidates(report)[i].s) = <<"c", "o", "n", "s", "t", "r", "u", "c", "t", "o", "r">>

C5_HoldsForOwnKeysAndStrings ==
  (ResolveReturned /\ ~ReachesInheritedOrNonString(call.report, reportDocsIndex))
    => ResolvedAsDocumented(call.report, reportDocsIndex, ret)

----------------------------------------------------------------------------
(* findBestReportMatch applied to queries, over loaded report caches *)

MatchListings == { <<>>, << <<"f", "o", "o", ".", "m", "d">> >> }

MatchArrays ==
  { <<>>,
    << Titled(<<"a", "b">>), Titled(<<"a">>) >>,
    << Titled(<<"a", "b", "c">>), Titled(<<"a", "c", "b">>) >>,
    << Titled(<<"a", "b", "c", "d">>), Titled(<<"a", "b", "x", "y">>), Titled(<<"a", "b", "c", "d">>) >>,
    << Obj(Str(<<"f", "o", "o">>), Num(<<"5">>), Undefined, Undefined) >>,
    << Obj(Undefined, Str(<<"T", "o", "k", "e", "n", " ", "V", "a", "u", "l", "t">>), Str(<<"o", "r", "g", "/", "v", "a", "u", "l", "t">>),
           Str(<<"h", "t", "t", "p", "s", ":", "/", "/", "h", "o", "s", "t", "/", "r", "/", "V", "a", "u", "l", "t", ".", "p", "d", "f">>)),
       Titled(<<"V", "a", "u", "l", "t">>),
       Obj(Undefined, Str(<<"-", "-">>), Undefined, Str(<<"v", "a", "u", "l", "t">>)) >> }

MatchQueries ==
  { <<"a", "b">>, <<"A", "B", "!">>, <<"a">>, <<"a", "b", "c", "d">>, <<"a", "b", "x", "d">>, <<"v", "a", "u", "l", "t">>, <<"t", "o", "k", "e", "n", "v", "o", "l", "t">>, <<"x", "y", "z">>, <<"-">>,
    <<"a", "b", "c", "d", "e", "f", "g", "h", "i">> }

InitMatch ==
  /\ \E listing \in MatchListings, array \in MatchArrays :
       /\ reportDocsIndex = BuildIndex(listing)
       /\ reportsCache = EnrichAll(array, BuildIndex(listing)).records
  /\ InitActivitiesIdle
  /\ call \in {[fn |-> "findBestReportMatch", query |-> query] : query \in MatchQueries}
  /\ ret = NoRet

ApplyFindBestReportMatch ==
  /\ call.fn = "findBestReportMatch"
  /\ ret = NoRet
  /\ ret' = findBestReportMatch(call.query, reportsCache)
  /\ UNCHANGED <<reportsCache, reportDocsIndex, serverVars, call>>

NextMatch == ApplyFindBestReportMatch

SpecMatch == InitMatch /\ [][NextMatch]_vars

----------------------------------------------------------------------------
(* C6 and C7 *)

MatchReturned == call.fn = "findBestReportMatch" /\ ret # NoRet

\* the non-empty normalized comparison strings of the cached reports, as
\* <<report number, field number>> pairs
ComparisonField(report, k) == <<report.title, report.github_repo, report.url>>[k]

ComparisonPairs(cache) ==
  {p \in (DOMAIN cache) \X (1..3) :
     /\ IsString(ComparisonField(cache[p[1]], p[2]))
     /\ normalizeString(ComparisonField(cache[p[1]], p[2]).s) # <<>>}

ComparisonString(cache, p) == normalizeString(ComparisonField(cache[p[1]], p[2]).s)

PairScore(cache, p, normalizedQuery) ==
  CandidateScore(ComparisonString(cache, p), normalizedQuery)

\* the pairs no other pair scores above
HighestPairs(cache, normalizedQuery) ==
  {p \in ComparisonPairs(cache) : \A o \in ComparisonPairs(cache) :
     ~ScoreGreater(PairScore(cache, o, normalizedQuery), PairScore(cache, p, normalizedQuery))}

SameScore(x, y) == ~ScoreGreater(x, y) /\ ~ScoreGreater(y, x)

MatchedAsDocumented(cache, query, result) ==
  LET normalizedQuery == normalizeString(query)
      highest == HighestPairs(cache, normalizedQuery)
      none == \/ normalizedQuery = <<>>
              \/ highest = {}
              \/ \E p \in highest : BelowPointFourFive(PairScore(cache, p, normalizedQuery))
  IN IF none THEN result = ReturnNull
     ELSE LET first == CHOOSE i \in {p[1] : p \in highest} :
                         \A p \in highest : i <= p[1]
          IN /\ result.t = "match"
             /\ result.report = cache[first]
             /\ \A p \in highest : SameScore(result.score, PairScore(cache, p, normalizedQuery))

\* C6: findBestReportMatch(query) returns none exactly when the normalized
\* query is empty or the highest score over all cached reports and all
\* their non-empty normalized comparison strings is below 0.45; otherwise
\* it returns that score and the first report, in cache order, attaining it.
C6_HighestScoreFirstReport ==
  MatchReturned => MatchedAsDocumented(reportsCache, call.query, ret)

\* the same, for the caches whose title, github_repo and url are strings
\* or falsy
C6_HoldsForStringFields ==
  (MatchReturned /\ \A i \in DOMAIN reportsCache : \A k \in 1..3 :
       Truthy(ComparisonField(reportsCache[i], k))
         => IsString(ComparisonField(reportsCache[i], k)))
    => MatchedAsDocumented(reportsCache, call.query, ret)

InSubstringRelation(candidate, normalizedQuery) ==
  Includes(candidate, normalizedQuery) \/ Includes(normalizedQuery, candidate)

\* C7: among the comparison strings in a substring relation with the
\* normalized query, one equal to the query never scores lower than one that
\* differs from it, and a report with an equal comparison string is never
\* beaten by a report that has none.
C7_ExactOutranksPartial ==
  MatchReturned =>
    LET normalizedQuery == normalizeString(call.query)
        pairs == {p \in ComparisonPairs(reportsCache) :
                    InSubstringRelation(ComparisonString(reportsCache, p), normalizedQuery)}
        exact == {p \in pairs : ComparisonString(reportsCache, p) = normalizedQuery}
    IN /\ \A p \in exact : \A o \in pairs \ exact :
            ~ScoreGreater(PairScore(reportsCache, o, normalizedQuery),
                          PairScore(reportsCache, p, normalizedQuery))
       /\ (exact # {} /\ ret.t = "match")
            => \E k \in 1..3 :
                 /\ IsString(ComparisonField(ret.report, k))
                 /\ normalizeString(ComparisonField(ret.report, k).s) = normalizedQuery

----------------------------------------------------------------------------
(* C1, C2, C3, C4 and C10 *)

\* C1: ensureReportsLoaded is idempotent for every records source: when the
\* second of two successive calls has returned, the report cache has the
\* contents it had when the first returned, and the second call has not
\* read the records source again.
C1_SecondCallIsNoOp ==
  pc["twice"] = "done" =>
    /\ reportsCache = afterFirst.cache
    /\ readCount = afterFirst.reads

\* C2: once the report cache has become non-empty, no step of the startup
\* load or of a request changes its contents.
C2_NonEmptyCacheNeverChanges ==
  [][reportsCache # <<>> => reportsCache' = reportsCache]_vars

\* C3: the document directory is scanned, and the index assigned, at most
\* once; a step taken when the index is built leaves it unchanged.
C3_ScannedAndAssignedOnce ==
  /\ [](scanCount <= 1)
  /\ [][~reportDocsIndex.isNull => reportDocsIndex' = reportDocsIndex]_vars

\* absent, or a string of white space
IsBlank(value) == ~Truthy(value) \/ (IsString(value) /\ TrimSpaces(value.s) = <<>>)

\* the non-empty slugs that title, github_repo and url yield, in that order
DerivedSlugs(base) ==
  SelectSeq([k \in 1..3 |->
               LET value == <<base.title, base.github_repo, base.url>>[k]
               IN IF Truthy(value) THEN createSlug(value.s) ELSE <<>>],
            NonEmpty)

\* C4: every record in the report cache has a non-empty slug; when the
\* source record's slug is absent or blank it is the first non-empty slug
\* that title, github_repo and url yield, in that order, and the placeholder
\* report-<1-based index> when none of them yields one.
C4_SlugNonEmptyAndDerivedInPriority ==
  /\ Len(cacheSource) = Len(reportsCache)
  /\ \A i \in DOMAIN reportsCache :
       LET base == Base(cacheSource[i])
       IN /\ reportsCache[i].slug.s # <<>>
          /\ IsBlank(base.slug) =>
               reportsCache[i].slug.s =
                 IF DerivedSlugs(base) # <<>> THEN Head(DerivedSlugs(base))
                 ELSE Placeholder(i - 1)

\* the same, for the source arrays whose records have no blank slug
C4_HoldsWithoutBlankSlug ==
  cacheSource # BlankSlugReports => C4_SlugNonEmptyAndDerivedInPriority

FirstCallReturned == afterFirst.taken

\* the strings asked for after a failed population
AbsorbedQueries == { <<"a", "b">>, <<"c", "o", "n", "s", "t", "r", "u", "c", "t", "o", "r">>, <<"f", "o", "o">> }

\* C10: every failure during population is absorbed: when a call of
\* ensureReportsLoaded has returned, a records source that is missing,
\* unreadable, unparsable or not an array has left the cache empty and
\* findBestReportMatch returns none; a document directory that is missing
\* or fails to list has left the index empty, and resolveExplanationPath
\* has returned none for every record.
C10_FailuresAbsorbed ==
  FirstCallReturned =>
    /\ recordsSource.kind # "array" =>
         /\ reportsCache = <<>>
         /\ \A query \in AbsorbedQueries :
              findBestReportMatch(query, reportsCache) = ReturnNull
    /\ (docsDir.kind # "ok" /\ ~reportDocsIndex.isNull) =>
         /\ reportDocsIndex = EmptyIndex
         /\ \A i \in DOMAIN reportsCache :
              /\ reportsCache[i].explanationPath = Null
              /\ resolveExplanationPath(reportsCache[i], reportDocsIndex) = Null

\* the same, for the records none of whose candidates normalizes to the
\* name of an inherited property
C10_HoldsWithoutInheritedNames ==
  (FirstCallReturned /\ recordsSource # Source("array", InheritedNameReports))
    => C10_FailuresAbsorbed

\* whenever the cache holds a report, the index has been built
IndexBuiltBeforeCache == reportsCache # <<>> => ~reportDocsIndex.isNull

----------------------------------------------------------------------------
(* C11 and C15 *)

\* a step of a blob-store route
BlobStep == blobVars' # blobVars

\* C11: every step of the /api/upload, /api/download/:rootHash and
\* /api/bugs handlers (and of /api/file-hash) leaves the report cache and
\* the document index unchanged, whatever its outcome
C11_BlobRoutesLeaveMatchingCore ==
  [][BlobStep => reportsCache' = reportsCache /\ reportDocsIndex' = reportDocsIndex]_vars

\* the report cache is populated, a download has stored its data and
\* another blob-store request has failed
C11_Witness ==
  /\ reportsCache # <<>>
  /\ ~reportDocsIndex.isNull
  /\ \E b \in BlobRequests :
       blobLocal[b].handler = "download" /\ blobResp[b].status = 200
  /\ \E b \in BlobRequests : blobResp[b].status = 500

\* C15: the rootHash of every success response of POST /api/upload is null
\* or the hash of the file that request uploaded, never the hash of
\* another file
C15_HashIdentifiesUploadedDataset ==
  \A b \in BlobRequests :
    (blobLocal[b].handler = "upload" /\ blobResp[b].status = 200)
      => blobResp[b].rootHash \in {NoHash, RootHash(blobLocal[b].file)}

\* the same for uploads that do not overlap another upload and whose remote
\* store succeeded: the hash is the hash of the uploaded file
C15_HoldsWhenRemoteStoreSucceeds ==
  \A b \in BlobRequests :
    (/\ blobLocal[b].handler = "upload"
     /\ blobResp[b].status = 200
     /\ blobResp[b].rootHash # RootHash(blobLocal[b].file))
      => \/ blobLocal[b].file \notin remoteStore
         \/ \E c \in BlobRequests \ {b} : blobLocal[c].handler = "upload"

----------------------------------------------------------------------------
(* ensureReportDocsIndex over directory listings *)

MaxListing == 2

\* names a listing of data/reports may hold
IndexFileNames ==
  { <<"a", "b", ".", "m", "d">>, <<"A", "B", ".", "m", "d">>, <<"a", "-", "b", ".", "M", "D">>, <<"-", ".", "m", "d">>, <<".", "m", "d">>, <<"a", "b", ".", "t", "x", "t">>, <<"7", ".", "m", "d">>, <<"m", "d">> }

RECURSIVE ListingsUpTo(_)
ListingsUpTo(n) ==
  IF n = 0 THEN {<<>>}
  ELSE ListingsUpTo(n - 1)
         \cup {Append(l, e) : l \in {m \in ListingsUpTo(n - 1) : Len(m) = n - 1},
                              e \in IndexFileNames}

IndexDirs ==
  {Dir("missing", <<>>), Dir("ioerror", <<>>)}
    \cup {Dir("ok", l) : l \in ListingsUpTo(MaxListing)}

\* ensureReportsLoaded() is called twice over an empty reports.json and one
\* of the directories
InitIndex ==
  /\ reportsCache = <<>>
  /\ reportDocsIndex = NullIndex
  /\ recordsSource = Source("array", <<>>)
  /\ docsDir \in IndexDirs
  /\ listening = FALSE
  /\ pc = [p \in Activities |-> "idle"]
  /\ local = [p \in Activities |-> NoLocal]
  /\ resp = [p \in Activities |-> NoResponse]
  /\ readCount = 0
  /\ scanCount = 0
  /\ cacheSource = <<>>
  /\ afterFirst = NotTaken
  /\ InitBlobIdle
  /\ call = NoCall
  /\ ret = NoRet

SpecIndex == InitIndex /\ [][NextTwice]_vars

----------------------------------------------------------------------------
(* C12 *)

\* the entries readdir listed
Listed == IF docsDir.kind = "ok" THEN docsDir.entries ELSE <<>>

\* the entry ends in ".md", whatever the case of its letters
IsMarkdownName(entry) ==
  /\ Len(entry) >= 3
  /\ toLowerCase(SubSeq(entry, Len(entry) - 2, Len(entry))) = <<".", "m", "d">>

\* the normalized base name of a markdown entry
NormalizedBaseName(entry) == normalizeString(SubSeq(entry, 1, Len(entry) - 3))

\* the entry is a markdown file whose normalized base name is not empty
Indexable(entry) == IsMarkdownName(entry) /\ NormalizedBaseName(entry) # <<>>

\* C12: a built index holds one key for each non-empty normalized base
\* name of a listed ".md" entry (case-insensitive) and nothing else; the
\* key maps to the full path of the last listed entry that normalizes to it
C12_IndexKeysAreNormalizedBaseNames ==
  ~reportDocsIndex.isNull =>
    LET e == reportDocsIndex.entries
    IN /\ \A i \in DOMAIN e :
            /\ e[i].key # <<>>
            /\ \E j \in DOMAIN Listed :
                 /\ Indexable(Listed[j])
                 /\ NormalizedBaseName(Listed[j]) = e[i].key
                 /\ e[i].path = Str(<<"reportsDir/">> \o Listed[j])
                 /\ \A k \in DOMAIN Listed :
                      (k > j /\ Indexable(Listed[k]))
                        => NormalizedBaseName(Listed[k]) # e[i].key
       /\ \A i, k \in DOMAIN e : e[i].key = e[k].key => i = k
       /\ \A j \in DOMAIN Listed :
            Indexable(Listed[j])
              => \E i \in DOMAIN e : e[i].key = NormalizedBaseName(Listed[j])

\* the index was built from two different entries that normalize to the
\* same key
C12_Witness ==
  /\ ~reportDocsIndex.isNull
  /\ Len(Listed) = 2
  /\ Listed[1] # Listed[2]
  /\ Indexable(Listed[1]) /\ Indexable(Listed[2])
  /\ NormalizedBaseName(Listed[1]) = NormalizedBaseName(Listed[2])
  /\ Len(reportDocsIndex.entries) = 1

----------------------------------------------------------------------------
(* C13 and C14 *)

\* C13: when the records source is an array of N elements, the cache a
\* call of ensureReportsLoaded leaves holds N records, the i-th carrying
\* the title, github_repo and url of the i-th element (none of them for an
\* element that is not an object)
C13_EveryElementStored ==
  (FirstCallReturned /\ recordsSource.kind = "array") =>
    /\ Len(afterFirst.cache) = Len(recordsSource.items)
    /\ \A i \in DOMAIN afterFirst.cache :
         /\ afterFirst.cache[i].title = Base(recordsSource.items[i]).title
         /\ afterFirst.cache[i].github_repo = Base(recordsSource.items[i]).github_repo
         /\ afterFirst.cache[i].url = Base(recordsSource.items[i]).url

\* the same, for the arrays whose records have string fields only
C13_HoldsForStringFields ==
  recordsSource # Source("array", MixedReports) => C13_EveryElementStored

\* the paths the document index holds
IndexPaths(index) == {index.entries[e].path : e \in DOMAIN index.entries}

\* C14: what resolveExplanationPath returns is none or a path that the
\* document index holds as a value
C14_ReturnsNoneOrIndexedPath ==
  (ResolveReturned /\ ~Threw(ret)) =>
    ret = Null \/ ret \in IndexPaths(reportDocsIndex)

\* the same, for the reports none of whose candidates normalizes to the
\* name of an inherited property that the index does not hold
C14_HoldsForOwnKeys ==
  (\A i \in DOMAIN StringCandidates(call.report) :
     \/ normalizeString(StringCandidates(call.report)[i].s)
          # <<"c", "o", "n", "s", "t", "r", "u", "c", "t", "o", "r">>
     \/ <<"c", "o", "n", "s", "t", "r", "u", "c", "t", "o", "r">>
          \in IndexKeys(reportDocsIndex))
    => C14_ReturnsNoneOrIndexedPath

----------------------------------------------------------------------------
(* C16 *)

\* a cached record without its explanationPath, every other field as it is
PublicFields(record) ==
  [f \in (DOMAIN record) \ {"explanationPath"} |-> record[f]]

\* the response carries a report
SendsReport(response) == response.body \in {"match", "markdown"}

\* C16: no report of a response has the field explanationPath; the report
\* that /api/reports/search sends is a cached record without that field,
\* the report that /api/reports/:slug/explain sends is the record it found
\* in the cache without that field, every other field unchanged; and
\* sending a report leaves the cache as it is
C16_ResponsesOmitExplanationPath ==
  /\ [](\A p \in Requests :
          SendsReport(resp[p]) => "explanationPath" \notin DOMAIN resp[p].report)
  /\ [][\A p \in Requests :
          /\ (resp'[p] # resp[p] /\ SendsReport(resp'[p])) =>
               /\ reportsCache' = reportsCache
               /\ \/ /\ local[p].handler = "search"
                     /\ \E k \in DOMAIN reportsCache :
                          resp'[p].report = PublicFields(reportsCache[k])
                  \/ /\ local[p].handler = "explain"
                     /\ resp'[p].report = PublicFields(local[p].report)
          /\ (local'[p].report # local[p].report) =>
               \E k \in DOMAIN reportsCache : local'[p].report = reportsCache[k]
       ]_vars

\* a search and an explain request have each sent a report whose cached
\* record holds an explanation path
C16_Witness ==
  /\ \E p \in Requests, k \in DOMAIN reportsCache :
       /\ resp[p].body = "match"
       /\ reportsCache[k].explanationPath # Null
       /\ resp[p].report = PublicFields(reportsCache[k])
  /\ \E p \in Requests :
       /\ resp[p].body = "markdown"
       /\ local[p].report.explanationPath # Null

====
